---- MODULE Spec2Model ----
(***************************************************************************)
(* Model of the actor runtime core (package actors, Actor shell): request  *)
(* and reply correlation, deferred commands, delegation, links, monitors,  *)
(* lifecycle and the mailbox processing loop.                              *)
(*                                                                         *)
(* Every operation of the Actor is a function from a snapshot of the whole *)
(* system (a record with one field per variable, plus the transient        *)
(* per-item fields cur, reissued and perr) to the snapshot after it.       *)
(* An action applies such a function to the current state.                 *)
(***************************************************************************)
EXTENDS Integers, Sequences, FiniteSets, TLC

VARIABLES
    state,             \* a.state: "Running", "Quitting", "Closed"
    quitError,         \* a.quitError
    nextCommandId,     \* a.nextCommandId
    inflightRequests,  \* a.inflightRequests: id -> [kind, origin, id, destination]
    activePromises,    \* a.activePromises: <<origin, id>> -> cancel callback
    incomingLinks,     \* a.incomingLinks: actor -> link type
    outgoingLinks,     \* a.outgoingLinks: actor -> link type
    monitoringActors,  \* a.monitoringActors
    currentStreamId,   \* a.currentStreamId
    streamInputs,      \* a.streamInputs: stream id -> input
    streamOutputs,     \* a.streamOutputs: <<stream id, consumer>> -> output info
    readyOutputs,      \* a.readyOutputs
    processors,        \* the actor still has message processors registered
    fsp,               \* a finished-service processor is set
    queue,             \* the mailbox of the actor, oldest item first
    messages,          \* a.messages: the detached batch, next item last
    paused,            \* the user's CommandQueue of paused commands
    pc,                \* "idle", "drain" (inside processIncomingMessages), "done"
    callbacks,         \* history: callbacks received by each request's ReplyProcessor
    replies,           \* history: reply messages emitted for each promise id
    received,          \* history: promise ids that were handed to a command handler
    cancelsSent,       \* history: CancelCommand messages enqueued for each request
    fired,             \* history: how often the canceller of a request was fired
    exitRuns,          \* history: runs of the exit processor
    fspRuns,           \* history: calls of the finished-service processor
    lastCheck,         \* history: what the last quiescence check saw and did
    cancelled,         \* history: requests whose canceller was fired while outstanding
    closeLog,          \* history: what close() found in the tables of the actor
    established,       \* history: link requests <<actor, peer, link type>> that the actor has processed
    linkMark,          \* history: items b has yet to handle up to the establishLink of a's first Link(b); -1 before the call
    streamLog,         \* history: per stream id, the callbacks run and the messages counted
    stale,             \* history: stream messages <<actor, type>> handled after the stream was torn down there
    infoAsked,         \* history: requests <<actor, id>> that were sent with a GetInfo payload
    forwarded,         \* history: commands <<actor, origin, id, destination>> that the actor passed on with Delegate as they were
    proxied,           \* history: commands <<actor, origin, id, request>> that the actor answers from its own request (proxy delegation)
    panicProcessor,    \* a panic processor is set (a.panicProcessor != nil)
    panicRuns,         \* history: the errors that onPanic was called with
    panicked,          \* history: commands <<kind, origin, id>> whose handler panicked, kind "fresh" or "resumed"
    returned,          \* history: what the SendRequest calls of the user code of each actor returned
    badStream,         \* history: InitStreamOutput calls per actor that reported ErrBadStream to streamClosed
    infoStream,        \* the registry's infoStateChangeStream
    reader,            \* a subscriber of the registry's stream and what it has seen
    batch,             \* the HTTP server's command batch in progress
    budget,            \* environment inputs still allowed
    scenario           \* which user program the actors run (fixed by Init)

vars == <<state, quitError, nextCommandId, inflightRequests, activePromises,
          incomingLinks, outgoingLinks, monitoringActors, currentStreamId,
          streamInputs, streamOutputs, readyOutputs, processors, fsp, queue,
          messages, paused, pc, callbacks, replies, received, cancelsSent,
          fired, exitRuns, fspRuns, lastCheck, cancelled, closeLog, established,
          linkMark,
          streamLog,
          stale,
          infoAsked,
          forwarded,
          proxied,
          panicProcessor,
          panicRuns,
          panicked,
          returned,
          badStream,
          infoStream,
          reader,
          batch,
          budget, scenario>>

-----------------------------------------------------------------------------
(* Bounds *)

MaxRequests == 2
MaxInputs == 4

\* The chunks a stream output has to give.
MaxChunks == 3

\* The streams a consumer opens in the user program "flow".
MaxFlowStreams == 1

Actors == {"A", "B", "C"}
Ids == 0..(MaxRequests - 1)
PIDs == Actors \X Ids
NoActor == "-"

-----------------------------------------------------------------------------
(* Values *)

actorRunning == "Running"
actorQuitting == "Quitting"
actorClosed == "Closed"

linkNone == "none"
linkLink == "link"
linkDepend == "depend"
linkKill == "kill"
linkMonitor == "monitor"

NoErr == "nil"
ErrCancelled == "ErrCancelled"
ErrActorDead == "ErrActorDead"
UserErr == "E1"
PanicErr == "panic"

EmptyMap == <<>>

MapPut(f, k, v) == [x \in (DOMAIN f) \cup {k} |-> IF x = k THEN v ELSE f[x]]

MapDel(f, k) == [x \in (DOMAIN f) \ {k} |-> f[x]]

NoLinks == [b \in Actors |-> linkNone]

\* The stream metadata of a request that is not a stream request
\* (streamRequest.id.IsValid() is false): <<stream id, consumer, data slot>>,
\* the data slot "slot" or, when the request carries none, "nil".
NoStream == <<0, NoActor, "nil">>

\* The payload GetInfo{}, which is no stream request either.
GetInfo == <<0, NoActor, "GetInfo">>

\* What the callbacks of a stream have seen: the data given to the input's
\* Process, the errors given to its closed callback, the requests the consumer
\* issued and the replies it handled while the input was registered, the
\* requests the producer took and the replies it emitted, the calls of the
\* output's FillData (fillErr: those that gave an error) and Acknowledged,
\* the errors given to its streamClosed.
NoLog == [process |-> <<>>, closed |-> <<>>, reqSent |-> 0, repRecv |-> 0,
          reqRecv |-> 0, repSent |-> 0, fill |-> 0, fillErr |-> 0, ack |-> 0,
          streamClosed |-> <<>>]

\* A mailbox item.  src, id and data are read according to type; stream is
\* the stream metadata that the payload of a command carries, elems the
\* payloads of an item that is an array of messages.
Msg(t, src, id, data, err) ==
    [type |-> t, src |-> src, id |-> id, data |-> data, err |-> err, stream |-> NoStream,
     elems |-> <<>>]

\* A mailbox item that is an array of user messages ([]inspect.Inspectable).
ArrayItem(src, elems) == [Msg("array", src, 0, "array", FALSE) EXCEPT !.elems = elems]

commandMessage(origin, id, stream) ==
    [Msg("command", origin, id, "req", FALSE) EXCEPT !.stream = stream]

NoCmd == [valid |-> FALSE, origin |-> NoActor, id |-> 0, data |-> NoErr, stream |-> NoStream]

\* The snapshot of the current state.
S == [state |-> state, quitError |-> quitError, nextCommandId |-> nextCommandId,
      inflightRequests |-> inflightRequests, activePromises |-> activePromises,
      incomingLinks |-> incomingLinks, outgoingLinks |-> outgoingLinks,
      monitoringActors |-> monitoringActors, currentStreamId |-> currentStreamId,
      streamInputs |-> streamInputs, streamOutputs |-> streamOutputs,
      readyOutputs |-> readyOutputs, processors |-> processors, fsp |-> fsp,
      queue |-> queue, messages |-> messages, paused |-> paused, pc |-> pc,
      callbacks |-> callbacks, replies |-> replies, received |-> received,
      cancelsSent |-> cancelsSent, fired |-> fired, exitRuns |-> exitRuns,
      fspRuns |-> fspRuns, lastCheck |-> lastCheck, cancelled |-> cancelled,
      closeLog |-> closeLog, established |-> established,
      linkMark |-> linkMark,
      streamLog |-> streamLog,
      stale |-> stale,
      infoAsked |-> infoAsked,
      forwarded |-> forwarded,
      proxied |-> proxied,
      panicProcessor |-> panicProcessor,
      panicRuns |-> panicRuns,
      panicked |-> panicked,
      returned |-> returned,
      badStream |-> badStream,
      infoStream |-> infoStream,
      reader |-> reader,
      batch |-> batch,
      budget |-> budget, scenario |-> scenario,
      cur |-> NoCmd, reissued |-> <<>>, perr |-> NoErr]

Apply(s) ==
    /\ state' = s.state
    /\ quitError' = s.quitError
    /\ nextCommandId' = s.nextCommandId
    /\ inflightRequests' = s.inflightRequests
    /\ activePromises' = s.activePromises
    /\ incomingLinks' = s.incomingLinks
    /\ outgoingLinks' = s.outgoingLinks
    /\ monitoringActors' = s.monitoringActors
    /\ currentStreamId' = s.currentStreamId
    /\ streamInputs' = s.streamInputs
    /\ streamOutputs' = s.streamOutputs
    /\ readyOutputs' = s.readyOutputs
    /\ processors' = s.processors
    /\ fsp' = s.fsp
    /\ queue' = s.queue
    /\ messages' = s.messages
    /\ paused' = s.paused
    /\ pc' = s.pc
    /\ callbacks' = s.callbacks
    /\ replies' = s.replies
    /\ received' = s.received
    /\ cancelsSent' = s.cancelsSent
    /\ fired' = s.fired
    /\ exitRuns' = s.exitRuns
    /\ fspRuns' = s.fspRuns
    /\ lastCheck' = s.lastCheck
    /\ cancelled' = s.cancelled
    /\ closeLog' = s.closeLog
    /\ established' = s.established
    /\ linkMark' = s.linkMark
    /\ streamLog' = s.streamLog
    /\ stale' = s.stale
    /\ infoAsked' = s.infoAsked
    /\ forwarded' = s.forwarded
    /\ proxied' = s.proxied
    /\ panicProcessor' = s.panicProcessor
    /\ panicRuns' = s.panicRuns
    /\ panicked' = s.panicked
    /\ returned' = s.returned
    /\ badStream' = s.badStream
    /\ infoStream' = s.infoStream
    /\ reader' = s.reader
    /\ batch' = s.batch
    /\ budget' = s.budget
    /\ scenario' = s.scenario

-----------------------------------------------------------------------------
(* Mailbox and service handle *)

\* service.Enqueue: appends to the mailbox; an actor whose Run loop has
\* ended and that was closed drops the item.
enqueue(s, dest, m) ==
    IF dest = NoActor \/ s.pc[dest] = "done" THEN s
    ELSE [s EXCEPT !.queue[dest] = Append(@, m)]

\* The items of mailbox q in the order they were enqueued, an array replaced
\* by its elements in array order.
RECURSIVE Flattened(_)
Flattened(q) ==
    IF q = <<>> THEN <<>>
    ELSE (IF Head(q).type = "array"
          THEN [i \in 1..Len(Head(q).elems) |->
                   Msg("user", Head(q).src, 0, Head(q).elems[i], FALSE)]
          ELSE <<Head(q)>>) \o Flattened(Tail(q))

-----------------------------------------------------------------------------
(* Replies *)

\* promiseId.reply / promiseId.replyWithError: enqueue a reply message to the
\* origin of the command (isErr: the payload is an errorReply).
pidReply(s, origin, id, data, isErr) ==
    LET s1 == enqueue(s, origin, Msg("reply", origin, id, data, isErr))
    IN [s1 EXCEPT !.replies[<<origin, id>>] = Append(@, <<isErr, data>>)]

reply(s, a, data) ==
    IF s.cur.valid
    THEN [pidReply(s, s.cur.origin, s.cur.id, data, FALSE) EXCEPT !.cur.valid = FALSE]
    ELSE s

replyWithError(s, a, err) ==
    IF s.cur.valid
    THEN [pidReply(s, s.cur.origin, s.cur.id, err, TRUE) EXCEPT !.cur.valid = FALSE]
    ELSE s

-----------------------------------------------------------------------------
(* Request tracker *)

\* The request's ReplyProcessor.  kind "user": callbacks of the caller, only
\* recorded.  kind "proxy": the OnReply/OnError pair built by Delegate, which
\* forwards the outcome to the promise <<origin, id>> and drops the promise.
UserProcessor ==
    [kind |-> "user", origin |-> NoActor, id |-> 0, destination |-> NoActor, stream |-> 0]

ProxyProcessor(origin, id) ==
    [kind |-> "proxy", origin |-> origin, id |-> id, destination |-> NoActor, stream |-> 0]

\* The OnReplyError processor that RequestStream builds for the input sid.
StreamProcessor(sid) ==
    [kind |-> "stream", origin |-> NoActor, id |-> 0, destination |-> NoActor, stream |-> sid]

\* closeInput is given the input itself: when the table no longer holds it,
\* its closed callback runs all the same (its source had stopped or was never
\* learned, so that the downstreamStopped reaches nobody).
closeInput(s, a, sid, err) ==
    LET s0 == [s EXCEPT !.streamLog[sid].closed = Append(@, err)]
    IN IF sid \in DOMAIN s.streamInputs[a]
       THEN LET src == s.streamInputs[a][sid].source
                s1 == enqueue(s0, src, Msg("downstreamStopped", a, sid, err, FALSE))
            IN [s1 EXCEPT !.streamInputs[a] = MapDel(@, sid)]
       ELSE s0

processorProcess(s, a, req, info, data) ==
    LET s1 == [s EXCEPT !.callbacks[<<a, req>>] = Append(@, <<"Process", data>>)]
    IN IF info.kind = "proxy"
       THEN LET s2 == pidReply(s1, info.origin, info.id, data, FALSE)
            IN [s2 EXCEPT !.activePromises[a] = MapDel(@, <<info.origin, info.id>>)]
       ELSE s1

processorError(s, a, req, info, err) ==
    LET s1 == [s EXCEPT !.callbacks[<<a, req>>] = Append(@, <<"Error", err>>)]
    IN IF info.kind = "proxy"
       THEN LET s2 == pidReply(s1, info.origin, info.id, err, TRUE)
            IN [s2 EXCEPT !.activePromises[a] = MapDel(@, <<info.origin, info.id>>)]
       ELSE IF info.kind = "stream" THEN closeInput(s1, a, info.stream, err)
       ELSE s1

inflightAdd(s, a, id, proc) ==
    [s EXCEPT !.inflightRequests[a] = MapPut(@, id, proc)]

inflightProcess(s, a, id, data) ==
    IF id \in DOMAIN s.inflightRequests[a]
    THEN LET info == s.inflightRequests[a][id]
             s1 == [s EXCEPT !.inflightRequests[a] = MapDel(@, id)]
         IN processorProcess(s1, a, id, info, data)
    ELSE s

inflightError(s, a, id, err) ==
    IF id \in DOMAIN s.inflightRequests[a]
    THEN LET info == s.inflightRequests[a][id]
             s1 == [s EXCEPT !.inflightRequests[a] = MapDel(@, id)]
         IN processorError(s1, a, id, info, err)
    ELSE s

inflightSetDestination(s, a, id, dest) ==
    IF id \in DOMAIN s.inflightRequests[a]
    THEN [s EXCEPT !.inflightRequests[a][id].destination = dest]
    ELSE s

\* A SendRequest that does not register the request in the inflight table.
SendRequestUntracked(s, a, destination, data, proc) ==
    IF s.state[a] = actorClosed THEN s
    ELSE LET id == s.nextCommandId[a]
         IN [enqueue(s, destination, commandMessage(a, id, data))
               EXCEPT !.nextCommandId[a] = id + 1]

\* A SendRequest that does not look at the state of the actor.
SendRequestUnchecked(s, a, destination, data, proc) ==
    LET id == s.nextCommandId[a]
        s1 == inflightAdd(s, a, id, proc)
        s2 == enqueue(s1, destination, commandMessage(a, id, data))
    IN [s2 EXCEPT !.nextCommandId[a] = id + 1]

\* What SendRequest returns: nil on a Closed actor, else the canceller of the
\* request it sends.
requestCanceller(s, a) ==
    IF s.state[a] = actorClosed THEN [nil |-> TRUE, id |-> 0]
    ELSE [nil |-> FALSE, id |-> s.nextCommandId[a]]

\* A SendRequest that takes the id of the request before.
SendRequestReusing(s, a, destination, data, proc) ==
    IF s.state[a] = actorClosed THEN s
    ELSE LET id == IF s.nextCommandId[a] > 0 THEN s.nextCommandId[a] - 1 ELSE 0
             s1 == inflightAdd(s, a, id, proc)
             s2 == enqueue(s1, destination, commandMessage(a, id, data))
         IN [s2 EXCEPT !.nextCommandId[a] = id + 1]

SendRequest(s, a, destination, data, proc) ==
    IF s.state[a] = actorClosed THEN s
    ELSE LET id == s.nextCommandId[a]
             s1 == inflightAdd(s, a, id, proc)
             s2 == enqueue(s1, destination, commandMessage(a, id, data))
         IN [s2 EXCEPT !.nextCommandId[a] = id + 1]

\* A cancelRequest that fails the request with ActorDead.
cancelRequestActorDead(s, a, id, info) ==
    LET s1 == IF info.destination # NoActor
              THEN [enqueue(s, info.destination, Msg("cancelCommand", a, id, NoErr, FALSE))
                      EXCEPT !.cancelsSent[<<a, id>>] = @ + 1]
              ELSE s
    IN processorError(s1, a, id, info, ErrActorDead)

cancelRequest(s, a, id, info) ==
    LET s1 == IF info.destination # NoActor
              THEN [enqueue(s, info.destination, Msg("cancelCommand", a, id, NoErr, FALSE))
                      EXCEPT !.cancelsSent[<<a, id>>] = @ + 1]
              ELSE s
    IN processorError(s1, a, id, info, ErrCancelled)

\* A cancelRequestById that does not look the request up before it fails it.
cancelRequestByIdUnchecked(s, a, id) ==
    IF id \in DOMAIN s.inflightRequests[a]
    THEN cancelRequest(s, a, id, s.inflightRequests[a][id])
    ELSE processorError(s, a, id, UserProcessor, ErrCancelled)

cancelRequestById(s, a, id) ==
    IF id \in DOMAIN s.inflightRequests[a]
    THEN cancelRequest(s, a, id, s.inflightRequests[a][id])
    ELSE s

\* requestCanceller.Cancel
Cancel(s, a, id) ==
    LET s1 == cancelRequestById(s, a, id)
    IN [s1 EXCEPT !.inflightRequests[a] = MapDel(@, id)]

processReply(s, a, m) ==
    IF m.err THEN inflightError(s, a, m.id, m.data)
    ELSE inflightProcess(s, a, m.id, m.data)

processPreReply(s, a, m) == inflightSetDestination(s, a, m.id, m.src)

-----------------------------------------------------------------------------
(* Links, monitors, Quit *)

Link(s, a, destination) ==
    LET pending == Len(s.messages[destination]) + Len(Flattened(s.queue[destination]))
        s1 == IF s.linkMark[a][destination] = -1 /\ s.pc[destination] # "done"
              THEN [s EXCEPT !.linkMark[a][destination] = pending + 1]
              ELSE s
    IN enqueue([s1 EXCEPT !.incomingLinks[a][destination] = linkLink],
               destination, Msg("establishLink", a, 0, linkLink, FALSE))

Monitor(s, a, destination) ==
    enqueue([s EXCEPT !.monitoringActors[a] = @ \cup {destination}],
            destination, Msg("establishLink", a, 0, linkMonitor, FALSE))

DependOn(s, a, destination) ==
    enqueue(s, destination, Msg("establishLink", a, 0, linkDepend, FALSE))

SendMessages(s, a, destination, elems) ==
    enqueue(s, destination, ArrayItem(a, elems))

Depend(s, a, destination) ==
    [s EXCEPT !.outgoingLinks[a][destination] = linkKill]

clearMessageProcessors(s, a) == [s EXCEPT !.processors[a] = FALSE]

Quit(s, a, err) ==
    clearMessageProcessors([s EXCEPT !.quitError[a] = err, !.state[a] = actorQuitting], a)

-----------------------------------------------------------------------------
(* Deferred commands *)

\* The cancel callback stored with an active promise.  kind "paused":
\* Command.invalidate / CommandQueue.addCanceled, the paused command leaves
\* the user's queue.  kind "proxy": the canceller of the request req.
PausedCancel == [kind |-> "paused", req |-> 0]

ProxyCancel(req) == [kind |-> "proxy", req |-> req]

RECURSIVE SeqWithout(_, _)
SeqWithout(q, x) ==
    IF q = <<>> THEN <<>>
    ELSE IF Head(q) = x THEN SeqWithout(Tail(q), x)
    ELSE <<Head(q)>> \o SeqWithout(Tail(q), x)

cancelCall(s, a, pid, cb) ==
    IF cb.kind = "proxy" THEN Cancel(s, a, cb.req)
    ELSE [s EXCEPT !.paused[a] = SeqWithout(@, pid)]

\* promiseReplyWithError hands the error itself to promiseId.reply: the reply
\* carries err as its payload, not as an errorReply.
promiseReplyWithError(s, a, pid, err) ==
    IF pid \in DOMAIN s.activePromises[a]
    THEN [pidReply(s, pid[1], pid[2], err, FALSE)
            EXCEPT !.activePromises[a] = MapDel(@, pid)]
    ELSE s

\* replyFromPromise; isErr: data is an errorReply.
replyFromPromise(s, a, pid, data, isErr) ==
    IF pid \in DOMAIN s.activePromises[a]
    THEN [pidReply(s, pid[1], pid[2], data, isErr)
            EXCEPT !.activePromises[a] = MapDel(@, pid)]
    ELSE s

replyWithErrorFromPromise(s, a, pid, err) == replyFromPromise(s, a, pid, err, TRUE)

\* A cancelCommandProcessingFromPromise that leaves the promise in the table.
cancelCommandProcessingFromPromiseKeep(s, a, pid, err) ==
    IF pid \in DOMAIN s.activePromises[a]
    THEN LET s1 == cancelCall(s, a, pid, s.activePromises[a][pid])
         IN pidReply(s1, pid[1], pid[2], err, TRUE)
    ELSE s

cancelCommandProcessingFromPromise(s, a, pid, err) ==
    IF pid \in DOMAIN s.activePromises[a]
    THEN LET s1 == cancelCall(s, a, pid, s.activePromises[a][pid])
             s2 == pidReply(s1, pid[1], pid[2], err, TRUE)
         IN [s2 EXCEPT !.activePromises[a] = MapDel(@, pid)]
    ELSE s

processCancelCommand(s, a, m) ==
    LET pid == <<m.src, m.id>>
    IN IF pid \in DOMAIN s.activePromises[a]
       THEN LET s1 == cancelCall(s, a, pid, s.activePromises[a][pid])
            IN [s1 EXCEPT !.activePromises[a] = MapDel(@, pid)]
       ELSE s

PauseCommandAndEnqueue(s, a) ==
    IF ~s.cur.valid THEN s
    ELSE LET pid == <<s.cur.origin, s.cur.id>>
         IN [s EXCEPT !.paused[a] = Append(@, pid),
                      !.activePromises[a] = MapPut(@, pid, PausedCancel),
                      !.cur.valid = FALSE]

\* reissuedQueue.pushOne: the head of the user's queue moves to the reissued list.
ResumeCommand(s, a) ==
    IF s.paused[a] = <<>> THEN s
    ELSE [s EXCEPT !.reissued = Append(@, Head(s.paused[a])),
                   !.paused[a] = Tail(@)]

\* A CancelCommand that leaves the promise of the command in the table.
CancelCommandKeep(s, a, err) ==
    IF Len(s.paused[a]) = 0 THEN s
    ELSE LET pid == Head(s.paused[a])
             s1 == [s EXCEPT !.paused[a] = Tail(@)]
         IN pidReply(s1, pid[1], pid[2], err, TRUE)

CancelCommand(s, a, err) ==
    IF Len(s.paused[a]) = 0 THEN s
    ELSE LET pid == Head(s.paused[a])
             s1 == [s EXCEPT !.paused[a] = Tail(@)]
             s2 == pidReply(s1, pid[1], pid[2], err, TRUE)
         IN [s2 EXCEPT !.activePromises[a] = MapDel(@, pid)]

\* Delegate, the branch taken when the current command has an active promise:
\* the actor sends its own request and answers the promise from its outcome.
\* On a Closed actor SendRequest returns a nil canceller, and taking its
\* Cancel method panics before the promise is touched.
DelegateProxy(s, a, destination) ==
    LET pid == <<s.cur.origin, s.cur.id>>
        req == s.nextCommandId[a]
        s1 == SendRequest(s, a, destination, s.cur.stream, ProxyProcessor(pid[1], pid[2]))
    IN IF s.state[a] = actorClosed THEN [s EXCEPT !.perr = PanicErr]
       ELSE [s1 EXCEPT !.activePromises[a] = MapPut(@, pid, ProxyCancel(req)),
                       !.cur.valid = FALSE,
                       !.proxied = @ \cup {<<a, pid[1], pid[2], req>>}]

\* A Delegate that passes the command on and answers it as well.
DelegateAndReply(s, a, destination) ==
    IF s.cur.valid
    THEN IF <<s.cur.origin, s.cur.id>> \in DOMAIN s.activePromises[a]
         THEN DelegateProxy(s, a, destination)
         ELSE [pidReply(enqueue(s, destination,
                                commandMessage(s.cur.origin, s.cur.id, s.cur.stream)),
                        s.cur.origin, s.cur.id, NoErr, FALSE)
                 EXCEPT !.cur.valid = FALSE,
                        !.forwarded = @ \cup {<<a, s.cur.origin, s.cur.id, destination>>}]
    ELSE s

Delegate(s, a, destination) ==
    IF s.cur.valid
    THEN IF <<s.cur.origin, s.cur.id>> \in DOMAIN s.activePromises[a]
         THEN DelegateProxy(s, a, destination)
         ELSE [enqueue(s, destination, commandMessage(s.cur.origin, s.cur.id, s.cur.stream))
                 EXCEPT !.cur.valid = FALSE,
                        !.forwarded = @ \cup {<<a, s.cur.origin, s.cur.id, destination>>}]
    ELSE s

-----------------------------------------------------------------------------
(* Streams *)

\* The n-th chunk of a stream.
ChunkOf(n) == CASE n = 1 -> "x" [] n = 2 -> "y" [] n = 3 -> "z" [] OTHER -> "w"

\* A registered input: its source is learned with the first data; requested
\* says that the input has asked for data and has had no answer yet.
NewInput(requested) == [source |-> NoActor, requested |-> requested]

\* A registered output: armed when a data request is stored with it
\* (dataRequest.id.IsValid()); sent counts the chunks FillData has given.
\* auto is shouldCloseWhenActorCloses.
NewOutput(armed) ==
    [closing |-> FALSE, closeError |-> NoErr, armed |-> armed, sent |-> 0, auto |-> FALSE]

\* StreamInput.RequestNext, by way of StreamInputBase.RequestData: once the
\* source is known a streamRequest goes to it, before that the request is
\* kept to travel with the command.
RequestNext(s, a, sid) ==
    LET input == s.streamInputs[a][sid]
        s1 == [s EXCEPT !.streamInputs[a][sid].requested = TRUE,
                        !.streamLog[sid].reqSent = @ + 1]
    IN IF input.requested THEN s
       ELSE IF input.source = NoActor THEN s1
       ELSE enqueue(s1, input.source, Msg("streamRequest", a, sid, "slot", FALSE))

\* slot: whether the first RequestNext of the input asks for data.
InitStreamRequest(s, a, slot) ==
    LET sid == s.currentStreamId[a] + 1
        s1 == [s EXCEPT !.currentStreamId[a] = sid,
                        !.streamInputs[a] = MapPut(@, sid, NewInput(FALSE))]
    IN IF slot THEN RequestNext(s1, a, sid) ELSE s1

RequestStream(s, a, destination, slot) ==
    LET s1 == InitStreamRequest(s, a, slot)
        sid == s1.currentStreamId[a]
    IN SendRequest(s1, a, destination, <<sid, a, IF slot THEN "slot" ELSE "nil">>,
                   StreamProcessor(sid))

\* StreamOutput.FillData as the user's output answers it: the next chunk when
\* it has one to give, nothing, or an error.
FillData(s, a, sent, fill) ==
    IF fill = "data" /\ sent < MaxChunks THEN ChunkOf(sent + 1)
    ELSE IF fill = "err" THEN UserErr
    ELSE NoErr

\* closeOutput: the consumer is told that the stream stopped, the output
\* leaves the table (oid = <<stream id, consumer>>) and its streamClosed runs.
closeOutput(s, a, oid) ==
    LET info == s.streamOutputs[a][oid]
        s1 == enqueue(s, oid[2], Msg("upstreamStopped", a, oid[1], info.closeError, FALSE))
    IN [s1 EXCEPT !.streamOutputs[a] = MapDel(@, oid),
                  !.streamLog[oid[1]].streamClosed = Append(@, info.closeError)]

\* StreamOutputBase.CloseStream
CloseStream(s, a, oid, err) ==
    IF s.streamOutputs[a][oid].closing THEN s
    ELSE [s EXCEPT !.streamOutputs[a][oid].closing = TRUE,
                   !.streamOutputs[a][oid].closeError = err]

\* An InitStreamOutput that registers the output whatever the request is.
InitStreamOutputAnyId(s, a, fill, auto) ==
    LET oid == <<s.cur.stream[1], s.cur.origin>>
    IN [s EXCEPT !.streamOutputs[a] = MapPut(@, oid, NewOutput(FALSE)),
                 !.badStream[a] = IF oid[1] = 0 THEN @ + 1 ELSE @]

\* An InitStreamOutput that registers an output without data armed even when
\* the output is closing.
InitStreamOutputNoClose(s, a, fill, auto) ==
    LET req == s.cur.stream
        sid == req[1]
        oid == <<req[1], req[2]>>
        data == FillData(s, a, 0, fill)
        new == [NewOutput(FALSE) EXCEPT !.auto = auto]
        s1 == [s EXCEPT !.streamLog[sid].fill = @ + 1, !.streamLog[sid].reqRecv = @ + 1]
    IN IF sid = 0 THEN [s EXCEPT !.badStream[a] = @ + 1]
       ELSE IF req[3] = "nil"
       THEN [enqueue(s, req[2], Msg("streamCanSend", a, sid, NoErr, FALSE))
               EXCEPT !.streamOutputs[a] = MapPut(@, oid, new)]
       ELSE IF fill = "err"
       THEN [enqueue(s1, req[2], Msg("upstreamStopped", a, sid, UserErr, FALSE))
               EXCEPT !.streamLog[sid].streamClosed = Append(@, UserErr),
                      !.streamLog[sid].fillErr = @ + 1]
       ELSE IF data = NoErr
       THEN [s1 EXCEPT !.streamOutputs[a] =
                          MapPut(@, oid, [new EXCEPT !.armed = TRUE,
                                                     !.closing = auto /\ s.state[a] # actorRunning])]
       ELSE [enqueue(s1, req[2], Msg("streamReply", a, sid, data, FALSE))
               EXCEPT !.streamOutputs[a] = MapPut(@, oid, [new EXCEPT !.sent = 1]),
                      !.streamLog[sid].repSent = @ + 1]

\* InitStreamOutput for the stream request of the current command; fill is
\* what the output's FillData answers, auto its shouldCloseWhenActorCloses.
\* closeOutput is called here on an output that is not in the table yet.
InitStreamOutput(s, a, fill, auto) ==
    LET req == s.cur.stream
        sid == req[1]
        oid == <<req[1], req[2]>>
        data == FillData(s, a, 0, fill)
        new == [NewOutput(FALSE) EXCEPT !.auto = auto]
        s1 == [s EXCEPT !.streamLog[sid].fill = @ + 1, !.streamLog[sid].reqRecv = @ + 1]
    IN IF sid = 0 THEN [s EXCEPT !.badStream[a] = @ + 1]
       ELSE IF req[3] = "nil"
       THEN [enqueue(s, req[2], Msg("streamCanSend", a, sid, NoErr, FALSE))
               EXCEPT !.streamOutputs[a] = MapPut(@, oid, new)]
       ELSE IF fill = "err"
       THEN [enqueue(s1, req[2], Msg("upstreamStopped", a, sid, UserErr, FALSE))
               EXCEPT !.streamLog[sid].streamClosed = Append(@, UserErr),
                      !.streamLog[sid].fillErr = @ + 1]
       ELSE IF data = NoErr
       THEN IF auto /\ s.state[a] # actorRunning
            THEN [enqueue(s1, req[2], Msg("upstreamStopped", a, sid, s.quitError[a], FALSE))
                    EXCEPT !.streamLog[sid].streamClosed = Append(@, s.quitError[a])]
            ELSE [s1 EXCEPT !.streamOutputs[a] = MapPut(@, oid, [new EXCEPT !.armed = TRUE])]
       ELSE [enqueue(s1, req[2], Msg("streamReply", a, sid, data, FALSE))
               EXCEPT !.streamOutputs[a] = MapPut(@, oid, [new EXCEPT !.sent = 1]),
                      !.streamLog[sid].repSent = @ + 1]

\* processData: the input learns its source and processes the data; next is
\* what the input does then: "request" (Process succeeds, RequestNext asks
\* for more), "hold" (Process succeeds, RequestNext asks for nothing yet) or
\* "err" (Process fails).
processData(s, a, m, data, next) ==
    IF m.id \notin DOMAIN s.streamInputs[a] THEN s
    ELSE LET s1 == [s EXCEPT !.streamInputs[a][m.id].source = m.src,
                             !.streamInputs[a][m.id].requested = FALSE,
                             !.streamLog[m.id].process = Append(@, data)]
         IN IF next = "err" THEN closeInput(s1, a, m.id, UserErr)
            ELSE IF next = "hold" THEN s1
            ELSE RequestNext(s1, a, m.id)

processStreamCanSend(s, a, m, next) == processData(s, a, m, NoErr, next)

processStreamReply(s, a, m, next) ==
    LET s1 == IF m.id \in DOMAIN s.streamInputs[a]
              THEN [s EXCEPT !.streamLog[m.id].repRecv = @ + 1] ELSE s
    IN processData(s1, a, m, m.data, next)

\* A processUpstreamStopped that runs the closed callback and keeps the input.
processUpstreamStoppedKeep(s, a, m) ==
    IF m.id \in DOMAIN s.streamInputs[a]
    THEN [s EXCEPT !.streamLog[m.id].closed = Append(@, m.data)]
    ELSE s

processUpstreamStopped(s, a, m) ==
    IF m.id \in DOMAIN s.streamInputs[a]
    THEN [s EXCEPT !.streamInputs[a] = MapDel(@, m.id),
                   !.streamLog[m.id].closed = Append(@, m.data)]
    ELSE s

processStreamRequest(s, a, m, fill) ==
    LET oid == <<m.id, m.src>>
    IN IF oid \notin DOMAIN s.streamOutputs[a] THEN s
       ELSE LET out == s.streamOutputs[a][oid]
                data == FillData(s, a, out.sent, fill)
                s1 == [s EXCEPT !.streamLog[m.id].ack = @ + 1,
                                !.streamLog[m.id].fill = @ + 1,
                                !.streamLog[m.id].reqRecv = @ + 1]
            IN IF fill = "err"
               THEN closeOutput([s1 EXCEPT !.streamOutputs[a][oid].closing = TRUE,
                                           !.streamOutputs[a][oid].closeError = UserErr,
                                           !.streamLog[m.id].fillErr = @ + 1],
                                a, oid)
               ELSE IF data = NoErr
               THEN LET s2 == IF out.auto /\ s.state[a] # actorRunning
                              THEN CloseStream(s1, a, oid, s.quitError[a]) ELSE s1
                    IN IF s2.streamOutputs[a][oid].closing THEN closeOutput(s2, a, oid)
                       ELSE [s2 EXCEPT !.streamOutputs[a][oid].armed = TRUE]
               ELSE [enqueue(s1, m.src, Msg("streamReply", a, m.id, data, FALSE))
                       EXCEPT !.streamOutputs[a][oid].sent = @ + 1,
                              !.streamLog[m.id].repSent = @ + 1]

processCloseStream(s, a, m) ==
    LET oid == <<m.id, m.src>>
    IN IF oid \in DOMAIN s.streamOutputs[a] THEN CloseStream(s, a, oid, NoErr) ELSE s

\* A processStreamAcknowledged that leaves a closing output registered.
processStreamAcknowledgedKeep(s, a, m) ==
    LET oid == <<m.id, m.src>>
    IN IF oid \notin DOMAIN s.streamOutputs[a] THEN s
       ELSE [s EXCEPT !.streamLog[m.id].ack = @ + 1]

processStreamAcknowledged(s, a, m) ==
    LET oid == <<m.id, m.src>>
    IN IF oid \notin DOMAIN s.streamOutputs[a] THEN s
       ELSE LET s1 == [s EXCEPT !.streamLog[m.id].ack = @ + 1]
            IN IF s.streamOutputs[a][oid].closing THEN closeOutput(s1, a, oid) ELSE s1

\* A processDownstreamStopped that does not look whether the output is there.
processDownstreamStoppedUnchecked(s, a, m) ==
    [s EXCEPT !.streamOutputs[a] = MapDel(@, <<m.id, m.src>>),
              !.streamLog[m.id].streamClosed = Append(@, m.data)]

processDownstreamStopped(s, a, m) ==
    LET oid == <<m.id, m.src>>
    IN IF oid \notin DOMAIN s.streamOutputs[a] THEN s
       ELSE [s EXCEPT !.streamOutputs[a] = MapDel(@, oid),
                      !.streamLog[m.id].streamClosed = Append(@, m.data)]

\* A stream message for a stream that the tables (ins: the inputs, outs: the
\* outputs of the receiver) do not hold.
Torn(ins, outs, m) ==
    \/ m.type \in {"streamCanSend", "streamReply", "upstreamStopped"} /\ m.id \notin DOMAIN ins
    \/ /\ m.type \in {"streamRequest", "streamAck", "closeStream", "downstreamStopped"}
       /\ <<m.id, m.src>> \notin DOMAIN outs

\* markOutputReady: only an output that has a stored data request gets ready.
markOutputReady(s, a, oid) ==
    IF oid \in DOMAIN s.streamOutputs[a] /\ s.streamOutputs[a][oid].armed
    THEN [s EXCEPT !.readyOutputs[a] = @ \cup {oid}]
    ELSE s

\* A flushReadyOutput that drops an error of FillData.
flushReadyOutputSwallow(s, a, oid, fill) ==
    LET out == s.streamOutputs[a][oid]
        data == FillData(s, a, out.sent, fill)
        s1 == [s EXCEPT !.streamLog[oid[1]].fill = @ + 1]
    IN IF fill = "err" THEN [s1 EXCEPT !.streamLog[oid[1]].fillErr = @ + 1]
       ELSE IF data # NoErr
       THEN [enqueue(s1, oid[2], Msg("streamReply", a, oid[1], data, FALSE))
               EXCEPT !.streamOutputs[a][oid].sent = @ + 1,
                      !.streamLog[oid[1]].repSent = @ + 1]
       ELSE IF out.closing THEN closeOutput(s1, a, oid)
       ELSE s1

\* flushReadyOutput: FillData is called with the stored data request.
flushReadyOutput(s, a, oid, fill) ==
    LET out == s.streamOutputs[a][oid]
        data == FillData(s, a, out.sent, fill)
        s1 == [s EXCEPT !.streamLog[oid[1]].fill = @ + 1]
    IN IF fill = "err"
       THEN closeOutput([s1 EXCEPT !.streamOutputs[a][oid].closing = TRUE,
                                   !.streamOutputs[a][oid].closeError = UserErr,
                                   !.streamLog[oid[1]].fillErr = @ + 1],
                        a, oid)
       ELSE IF data # NoErr
       THEN [enqueue(s1, oid[2], Msg("streamReply", a, oid[1], data, FALSE))
               EXCEPT !.streamOutputs[a][oid].sent = @ + 1,
                      !.streamLog[oid[1]].repSent = @ + 1]
       ELSE IF out.closing THEN closeOutput(s1, a, oid)
       ELSE s1

\* The loop of FlushReadyOutputs over the ready outputs.
RECURSIVE flushAll(_, _, _, _)
flushAll(s, a, todo, fill) ==
    IF todo = {} THEN s
    ELSE LET oid == CHOOSE x \in todo : TRUE
             s1 == IF oid \in DOMAIN s.streamOutputs[a] /\ s.streamOutputs[a][oid].armed
                   THEN flushReadyOutput(s, a, oid, fill)
                   ELSE s
         IN flushAll(s1, a, todo \ {oid}, fill)

\* StreamOutputBase.NewDataAvailable for every output of the actor.
RECURSIVE NewDataAvailable(_, _, _)
NewDataAvailable(s, a, todo) ==
    IF todo = {} THEN s
    ELSE LET oid == CHOOSE x \in todo : TRUE
         IN NewDataAvailable(markOutputReady(s, a, oid), a, todo \ {oid})

\* The user closes every output of the actor without error: the output is
\* closing and, where a request waits, is looked at by the next flush.
RECURSIVE FinishOutputs(_, _, _)
FinishOutputs(s, a, todo) ==
    IF todo = {} THEN s
    ELSE LET oid == CHOOSE x \in todo : TRUE
         IN FinishOutputs(markOutputReady(CloseStream(s, a, oid, NoErr), a, oid),
                          a, todo \ {oid})

\* The user asks every input of the actor that waits for nothing to request
\* its next data.
RECURSIVE RequestNextAll(_, _, _)
RequestNextAll(s, a, todo) ==
    IF todo = {} THEN s
    ELSE LET sid == CHOOSE x \in todo : TRUE
         IN RequestNextAll(RequestNext(s, a, sid), a, todo \ {sid})

\* The user has every input of the actor send its source a message of the
\* given type: a streamAck (StreamInputBase.Acknowledge) or a closeStream.
RECURSIVE SendToSources(_, _, _, _)
SendToSources(s, a, todo, type) ==
    IF todo = {} THEN s
    ELSE LET sid == CHOOSE x \in todo : TRUE
             s1 == enqueue(s, s.streamInputs[a][sid].source, Msg(type, a, sid, NoErr, FALSE))
         IN SendToSources(s1, a, todo \ {sid}, type)

-----------------------------------------------------------------------------
(* close() *)

RECURSIVE closePromises(_, _, _)
closePromises(s, a, todo) ==
    IF todo = {} THEN s
    ELSE LET pid == CHOOSE x \in todo : TRUE
         IN closePromises(cancelCommandProcessingFromPromise(s, a, pid, ErrActorDead),
                          a, todo \ {pid})

RECURSIVE closeRequests(_, _, _)
closeRequests(s, a, todo) ==
    IF todo = {} THEN s
    ELSE LET id == CHOOSE x \in todo : TRUE
             s1 == IF id \in DOMAIN s.inflightRequests[a]
                   THEN cancelRequest(s, a, id, s.inflightRequests[a][id])
                   ELSE s
         IN closeRequests(s1, a, todo \ {id})

\* A loop over incomingLinks whose Quit messages carry the actor's quitError.
RECURSIVE closeIncomingLinksWithError(_, _, _)
closeIncomingLinksWithError(s, a, todo) ==
    IF todo = {} THEN s
    ELSE LET b == CHOOSE x \in todo : TRUE
             lt == s.incomingLinks[a][b]
             s1 == IF lt \in {linkLink, linkDepend}
                   THEN enqueue(s, b, Msg("quit", a, 0, s.quitError[a], FALSE))
                   ELSE IF lt = linkMonitor
                   THEN enqueue(s, b, Msg("notifyClose", a, 0, s.quitError[a], FALSE))
                   ELSE s
         IN closeIncomingLinksWithError(s1, a, todo \ {b})

RECURSIVE closeIncomingLinks(_, _, _)
closeIncomingLinks(s, a, todo) ==
    IF todo = {} THEN s
    ELSE LET b == CHOOSE x \in todo : TRUE
             lt == s.incomingLinks[a][b]
             s1 == IF lt \in {linkLink, linkDepend}
                   THEN enqueue(s, b, Msg("quit", a, 0, NoErr, FALSE))
                   ELSE IF lt = linkMonitor
                   THEN enqueue(s, b, Msg("notifyClose", a, 0, s.quitError[a], FALSE))
                   ELSE s
         IN closeIncomingLinks(s1, a, todo \ {b})

RECURSIVE closeOutgoingLinks(_, _, _)
closeOutgoingLinks(s, a, todo) ==
    IF todo = {} THEN s
    ELSE LET b == CHOOSE x \in todo : TRUE
             lt == s.outgoingLinks[a][b]
             s1 == IF lt \in {linkLink, linkKill}
                   THEN enqueue(s, b, Msg("quit", a, 0, NoErr, FALSE))
                   ELSE s
         IN closeOutgoingLinks(s1, a, todo \ {b})

RECURSIVE closeInputs(_, _, _)
closeInputs(s, a, todo) ==
    IF todo = {} THEN s
    ELSE LET sid == CHOOSE x \in todo : TRUE
             s1 == enqueue(s, s.streamInputs[a][sid].source,
                           Msg("downstreamStopped", a, sid, s.quitError[a], FALSE))
             s2 == [s1 EXCEPT !.streamLog[sid].closed = Append(@, s.quitError[a])]
         IN closeInputs(s2, a, todo \ {sid})

\* A loop over streamOutputs that removes the outputs and tells nobody.
RECURSIVE closeOutputsSilently(_, _, _)
closeOutputsSilently(s, a, todo) ==
    IF todo = {} THEN s
    ELSE LET oid == CHOOSE x \in todo : TRUE
         IN closeOutputsSilently([s EXCEPT !.streamOutputs[a] = MapDel(@, oid)], a, todo \ {oid})

RECURSIVE closeOutputs(_, _, _)
closeOutputs(s, a, todo) ==
    IF todo = {} THEN s
    ELSE LET oid == CHOOSE x \in todo : TRUE
             s1 == IF oid \in DOMAIN s.streamOutputs[a]
                   THEN closeOutput(CloseStream(s, a, oid, s.quitError[a]), a, oid)
                   ELSE s
         IN closeOutputs(s1, a, todo \ {oid})

NoClose == [done |-> FALSE, promises |-> EmptyMap, inflight |-> EmptyMap,
            incoming |-> NoLinks, outgoing |-> NoLinks,
            inputs |-> EmptyMap, outputs |-> EmptyMap, quitError |-> NoErr]

\* The tables of actor a.
Holdings(s, a) ==
    [done |-> TRUE,
     promises |-> s.activePromises[a],
     inflight |-> s.inflightRequests[a],
     incoming |-> s.incomingLinks[a],
     outgoing |-> s.outgoingLinks[a],
     inputs |-> s.streamInputs[a],
     outputs |-> s.streamOutputs[a],
     quitError |-> s.quitError[a]]

close(s, a) ==
    LET s0 == clearMessageProcessors([s EXCEPT !.state[a] = actorClosed,
                                               !.closeLog[a] = Holdings(s, a)], a)
        s1 == closePromises(s0, a, DOMAIN s0.activePromises[a])
        s2 == closeRequests(s1, a, DOMAIN s1.inflightRequests[a])
        s3 == [s2 EXCEPT !.inflightRequests[a] = EmptyMap]
        s4 == closeIncomingLinks(s3, a, Actors)
        s5 == [s4 EXCEPT !.incomingLinks[a] = NoLinks]
        s6 == closeOutgoingLinks(s5, a, Actors)
        s7 == [s6 EXCEPT !.outgoingLinks[a] = NoLinks]
        s8 == closeInputs(s7, a, DOMAIN s7.streamInputs[a])
        s9 == [s8 EXCEPT !.streamInputs[a] = EmptyMap]
        s10 == closeOutputs(s9, a, DOMAIN s9.streamOutputs[a])
    IN [s10 EXCEPT !.streamOutputs[a] = EmptyMap,
                   !.readyOutputs[a] = {}]

-----------------------------------------------------------------------------
(* Quiescence *)

haveActiveProcessors(s, a) == s.processors[a]

\* A shouldQuit that does not look at the inflight table.
shouldQuitIgnoringRequests(s, a) ==
    /\ ~haveActiveProcessors(s, a)
    /\ DOMAIN s.activePromises[a] = {}
    /\ (~s.fsp[a] \/ s.monitoringActors[a] = {})
    /\ DOMAIN s.streamInputs[a] = {}
    /\ DOMAIN s.streamOutputs[a] = {}

shouldQuit(s, a) ==
    /\ ~haveActiveProcessors(s, a)
    /\ DOMAIN s.activePromises[a] = {}
    /\ DOMAIN s.inflightRequests[a] = {}
    /\ (~s.fsp[a] \/ s.monitoringActors[a] = {})
    /\ DOMAIN s.streamInputs[a] = {}
    /\ DOMAIN s.streamOutputs[a] = {}

MaxExitRuns == 2

runExitProcessor(s, a) ==
    [s EXCEPT !.exitRuns[a] = IF @ < MaxExitRuns THEN @ + 1 ELSE @]

NoCheck == [ran |-> FALSE, processors |-> FALSE, promises |-> 0, inflight |-> 0,
            fsp |-> FALSE, monitoring |-> 0, inputs |-> 0, outputs |-> 0,
            before |-> actorRunning, after |-> actorRunning]

\* What the actor holds when the check decides, and the state before and after.
CheckRecord(s, a, before) ==
    [ran |-> TRUE, processors |-> s.processors[a],
     promises |-> Cardinality(DOMAIN s.activePromises[a]),
     inflight |-> Cardinality(DOMAIN s.inflightRequests[a]),
     fsp |-> s.fsp[a], monitoring |-> Cardinality(s.monitoringActors[a]),
     inputs |-> Cardinality(DOMAIN s.streamInputs[a]),
     outputs |-> Cardinality(DOMAIN s.streamOutputs[a]),
     before |-> before, after |-> s.state[a]]

quitIfInactive(s, a) ==
    IF s.state[a] = actorClosed THEN s
    ELSE LET s1 == IF shouldQuit(s, a) THEN [s EXCEPT !.state[a] = actorQuitting] ELSE s
             s2 == IF s1.state[a] = actorQuitting THEN runExitProcessor(s1, a) ELSE s1
             s3 == IF shouldQuit(s2, a) THEN [s2 EXCEPT !.state[a] = actorClosed] ELSE s2
         IN [s3 EXCEPT !.lastCheck[a] = CheckRecord(s3, a, s.state[a])]

FlushReadyOutputs(s, a, fill) ==
    LET s1 == flushAll(s, a, s.readyOutputs[a], fill)
    IN quitIfInactive([s1 EXCEPT !.readyOutputs[a] = {}], a)

\* An onPanic that does nothing.
onPanicIgnored(s, a, err) == s

onPanic(s, a, err) ==
    LET s1 == [s EXCEPT !.panicRuns[a] = Append(@, err)]
    IN IF s.panicProcessor[a] THEN s1 ELSE Quit(s1, a, err)

-----------------------------------------------------------------------------
(* The user programs *)

\* Whom actor a sends requests to, delegates to and links with.
Targets(a) == IF a = "A" THEN {"B"} ELSE IF a = "B" THEN {"C"} ELSE {}

Call(op, dst, id) == [op |-> op, dst |-> dst, id |-> id]

\* The calls that the message handlers of actor a make, one per user message.
UserCalls(sc, a) ==
    CASE sc = "requests" /\ a = "A" ->
            {Call("SendRequest", "B", 0), Call("Quit", NoActor, 0)}
               \cup {Call("Cancel", NoActor, i) : i \in Ids}
      [] sc = "requests" /\ a = "B" ->
            {Call("Resume", NoActor, 0), Call("CancelCommand", NoActor, 0)}
      [] sc = "delegate" /\ a = "A" ->
            {Call("SendRequest", "B", 0), Call("Cancel", NoActor, 0)}
      [] sc = "links" /\ a = "A" ->
            {Call("SendRequest", "B", 0), Call("Link", "B", 0), Call("Monitor", "B", 0),
             Call("Quit", NoActor, 0)}
      [] sc = "links" /\ a = "B" ->
            {Call("Monitor", "A", 0), Call("Quit", NoActor, 0)}
      [] sc = "streams" /\ a = "A" ->
            {Call("RequestStream", "B", 0), Call("Link", "B", 0)}
      [] sc = "info" /\ a = "A" ->
            {Call("GetInfo", "B", 0), Call("SendRequest", "B", 0)}
               \cup {Call("Cancel", NoActor, i) : i \in Ids}
      [] sc = "info" /\ a = "B" ->
            {Call("Resume", NoActor, 0), Call("Quit", NoActor, 0)}
      [] sc = "flow" /\ a = "A" ->
            {Call("RequestStream", "B", 0), Call("RequestNext", NoActor, 0),
             Call("Acknowledge", NoActor, 0), Call("AskClose", NoActor, 0)}
      [] sc = "flow" /\ a = "B" ->
            {Call("NewData", NoActor, 0), Call("Finish", NoActor, 0)}
      [] sc = "batch" /\ a = "A" ->
            {Call("SendMessages", "B", 0), Call("SendRequest", "B", 0)}
      [] sc = "fill" /\ a = "A" -> {Call("RequestStream", "B", 0)}
      [] sc = "fill" /\ a = "B" -> {Call("NewData", NoActor, 0)}
      [] sc = "init" /\ a = "A" ->
            {Call("RequestStream", "B", 0), Call("RequestStreamBare", "B", 0),
             Call("SendRequest", "B", 0)}
      [] sc = "cancel" /\ a = "A" ->
            {Call("SendRequest", "B", 0), Call("Cancel", NoActor, 0)}
      [] sc = "cancel" /\ a = "B" -> {Call("Resume", NoActor, 0)}
      [] sc = "promise" /\ a = "A" -> {Call("SendRequest", "B", 0)}
      [] sc = "promise" /\ a = "B" ->
            {Call("PromiseReplyWithError", "A", i) : i \in Ids}
               \cup {Call("ReplyWithErrorFromPromise", "A", i) : i \in Ids}
      [] sc = "edges" /\ a = "A" ->
            {Call("Link", "B", 0), Call("DependOn", "B", 0), Call("Depend", "B", 0),
             Call("Monitor", "B", 0), Call("Quit", NoActor, 0)}
      [] sc = "edges" /\ a = "B" -> {Call("Quit", NoActor, 0)}
      [] sc = "exit" /\ a = "A" -> {Call("SendRequest", "B", 0), Call("Quit", NoActor, 0)}
      [] sc = "exit" /\ a = "B" -> {Call("Resume", NoActor, 0)}
      [] sc = "panic" /\ a = "A" -> {Call("SendRequest", "B", 0)}
      [] sc = "panic" /\ a = "B" -> {Call("Resume", NoActor, 0)}
      [] sc = "batch" /\ a = "B" ->
            {Call("Link", "A", 0), Call("Quit", NoActor, 0)}
      [] OTHER -> {}

\* The array that SendMessages sends: its receiver monitors the sender, then quits.
BatchPayload == <<"Monitor", "Quit">>

\* What the command handlers of actor a may do with a command
\* (runCommandProcessor followed by the visit of its response).
CommandOutcomes(sc, a) ==
    CASE sc = "requests" /\ a = "B" -> {"value", "error", "panic", "pause", "pausePre"}
      [] sc = "delegate" /\ a = "B" -> {"delegate", "proxy"}
      [] sc = "delegate" /\ a = "C" -> {"value", "error", "pause"}
      [] sc = "links" /\ a = "B" -> {"value", "pause"}
      [] sc = "streams" /\ a = "B" -> {"stream", "streamData", "proxy"}
      [] sc = "streams" /\ a = "C" -> {"stream"}
      [] sc = "flow" /\ a = "B" -> {"stream", "streamData"}
      [] sc = "info" /\ a = "B" -> {"value", "error", "panic", "pause"}
      [] sc = "panic" /\ a = "B" -> {"value", "panic", "pause"}
      [] sc = "exit" /\ a = "B" -> {"value", "pause"}
      [] sc = "cancel" /\ a = "B" -> {"pause", "pausePre", "proxyPre"}
      [] sc = "promise" /\ a = "B" -> {"pause"}
      [] sc = "fill" /\ a = "B" -> {"stream", "streamData", "streamErr"}
      [] sc = "init" /\ a = "B" -> {"stream", "streamData", "streamErr", "streamAuto"}
      [] OTHER -> {"value"}

\* How many streams the consumer of the user program opens.
MaxStreams(sc) == IF sc \in {"flow", "init"} THEN MaxFlowStreams ELSE MaxRequests

\* What FillData may answer to a stream request or to a flush.
FillOutcomes(sc) == IF sc = "fill" THEN {"data", "nil", "err"} ELSE {"data", "nil"}

\* What the input of a stream may do with data: see processData.
InputOutcomes(sc) ==
    IF sc = "flow" THEN {"request", "hold", "err"} ELSE {"request"}

ResumedOutcomes(sc, a) ==
    CASE sc = "requests" /\ a = "B" -> {"value", "error", "panic", "pause"}
      [] sc = "panic" /\ a = "B" -> {"value", "panic"}
      [] OTHER -> {"value"}

\* The actors that the system may shut down with a closeMessage.
ShutdownTargets(sc) ==
    CASE sc = "requests" -> {"A", "B"}
      [] sc = "delegate" -> {"B", "C"}
      [] sc = "links" -> {"B"}
      [] sc = "streams" -> {"A", "B"}
      [] sc = "batch" -> {"B"}
      [] sc = "flow" -> {"B"}
      [] sc = "info" -> {"B"}
      [] sc = "panic" -> {"B"}
      [] sc = "exit" -> {"B"}
      [] sc = "edges" -> {"B"}
      [] sc = "cancel" -> {"C"}
      [] sc = "promise" -> {"B"}
      [] sc = "fill" -> {"B"}
      [] sc = "init" -> {"B"}
      [] OTHER -> {}

\* The actors whose behaviour registers no handler at all.
NoHandlers(sc) == IF sc = "exit" THEN {"C"} ELSE {}

\* The actors that may have a panic processor set, which only takes note of
\* the error; without one onPanic quits the actor.
PanicProcessors(sc) ==
    IF sc = "panic" THEN {[a \in Actors |-> FALSE], [a \in Actors |-> a = "B"]}
    ELSE {[a \in Actors |-> FALSE]}

-----------------------------------------------------------------------------
(* Command processing *)

NoChoice == [main |-> "none", resumed |-> "none", dest |-> NoActor, fill |-> "nil",
             next |-> "request"]

\* The end of a command processor that delegated its command: the error of
\* the delegation, if any, is the reply.
replyDelegated(s, a) ==
    IF s.perr # NoErr THEN replyWithError(s, a, s.perr) ELSE reply(s, a, NoErr)

runCommandProcessor(s, a, outcome, dest) ==
    CASE outcome = "value" -> reply(s, a, "v")
      [] outcome = "error" -> replyWithError(s, a, UserErr)
      [] outcome = "panic" -> [replyWithError(s, a, PanicErr) EXCEPT !.perr = PanicErr]
      [] outcome = "pause" -> reply(PauseCommandAndEnqueue(s, a), a, NoErr)
      [] outcome = "pausePre" ->
            LET s1 == enqueue(s, s.cur.origin, Msg("preReply", a, s.cur.id, NoErr, FALSE))
            IN reply(PauseCommandAndEnqueue(s1, a), a, NoErr)
      [] outcome = "delegate" -> reply(Delegate(s, a, dest), a, NoErr)
      [] outcome = "proxy" ->
            LET pid == <<s.cur.origin, s.cur.id>>
                s1 == [s EXCEPT !.activePromises[a] = MapPut(@, pid, PausedCancel)]
                s2 == Delegate(s1, a, dest)
            IN replyDelegated(s2, a)
      [] outcome = "proxyPre" ->
            LET pid == <<s.cur.origin, s.cur.id>>
                s0 == enqueue(s, s.cur.origin, Msg("preReply", a, s.cur.id, NoErr, FALSE))
                s1 == [s0 EXCEPT !.activePromises[a] = MapPut(@, pid, PausedCancel)]
                s2 == Delegate(s1, a, dest)
            IN replyDelegated(s2, a)
      [] outcome = "stream" -> reply(InitStreamOutput(s, a, "nil", FALSE), a, "v")
      [] outcome = "streamData" -> reply(InitStreamOutput(s, a, "data", FALSE), a, "v")
      [] outcome = "streamErr" -> reply(InitStreamOutput(s, a, "err", FALSE), a, "v")
      [] outcome = "streamAuto" -> reply(InitStreamOutput(s, a, "nil", TRUE), a, "v")
      [] OTHER -> reply(s, a, NoErr)

\* A processCommand that hands every command to the command processor.
processCommandNoInfo(s, a, m, h) ==
    LET s1 == [s EXCEPT !.cur = [valid |-> TRUE, origin |-> m.src, id |-> m.id, data |-> m.data,
                                 stream |-> m.stream],
                        !.received = @ \cup {<<m.src, m.id>>}]
    IN runCommandProcessor(s1, a, h.main, h.dest)

\* The deferred function of the command functions: a recovered panic is
\* recorded with the command it came from.
recovered(s, tag) ==
    IF s.perr # NoErr THEN [s EXCEPT !.panicked = @ \cup {tag}] ELSE s

processCommand(s, a, m, h) ==
    LET s0 == [s EXCEPT !.cur = [valid |-> TRUE, origin |-> m.src, id |-> m.id, data |-> m.data,
                                 stream |-> m.stream]]
        s1 == [s0 EXCEPT !.received = @ \cup {<<m.src, m.id>>}]
    IN IF m.stream = GetInfo THEN reply(s0, a, "commands")
       ELSE recovered(runCommandProcessor(s1, a, h.main, h.dest), <<"fresh", m.src, m.id>>)

\* The deferred function of processReissuedCommand assigns the recovered
\* error to a variable of its own (err :=), so that the function returns nil
\* after a panic as well.
processReissuedCommand(s, a, pid, h) ==
    LET s1 == [s EXCEPT !.cur = [valid |-> TRUE, origin |-> pid[1], id |-> pid[2], data |-> "req",
                                 stream |-> NoStream],
                        !.activePromises[a] = MapDel(@, pid),
                        !.perr = NoErr]
    IN [recovered(runCommandProcessor(s1, a, h.resumed, h.dest), <<"resumed", pid[1], pid[2]>>)
          EXCEPT !.perr = NoErr]

\* The caller of a function that returned a recovered panic calls onPanic.
panicHandled(s, a) ==
    IF s.perr # NoErr THEN onPanic(s, a, s.perr) ELSE s

RECURSIVE processReissuedCommands(_, _, _)
processReissuedCommands(s, a, h) ==
    IF s.reissued = <<>> THEN s
    ELSE LET pid == Head(s.reissued)
             s1 == processReissuedCommand([s EXCEPT !.reissued = Tail(@)], a, pid, h)
         IN processReissuedCommands(panicHandled(s1, a), a, h)

processServiceFinished(s, a, m) ==
    LET s1 == IF s.fsp[a] THEN [s EXCEPT !.fspRuns[a] = Append(@, <<m.src, m.data>>)] ELSE s
    IN [s1 EXCEPT !.monitoringActors[a] = @ \ {m.src}]

\* The message processor of a user message performs the call the message names.
runMessageProcessor(s, a, m) ==
    IF ~s.processors[a] THEN s
    ELSE CASE m.data = "SendRequest" ->
                 IF s.nextCommandId[a] < MaxRequests
                 THEN [SendRequest(s, a, m.src, NoStream, UserProcessor)
                         EXCEPT !.returned[a] = Append(@, requestCanceller(s, a))]
                 ELSE s
           [] m.data = "Cancel" ->
                 IF m.id < s.nextCommandId[a]
                 THEN [Cancel(s, a, m.id) EXCEPT
                         !.fired[<<a, m.id>>] = @ + 1,
                         !.cancelled = IF m.id \in DOMAIN s.inflightRequests[a]
                                       THEN @ \cup {<<a, m.id>>} ELSE @]
                 ELSE s
           [] m.data = "RequestStream" ->
                 IF s.nextCommandId[a] < MaxRequests /\ s.currentStreamId[a] < MaxStreams(s.scenario)
                 THEN RequestStream(s, a, m.src, TRUE) ELSE s
           [] m.data = "RequestStreamBare" ->
                 IF s.nextCommandId[a] < MaxRequests /\ s.currentStreamId[a] < MaxStreams(s.scenario)
                 THEN RequestStream(s, a, m.src, FALSE) ELSE s
           [] m.data = "GetInfo" ->
                 IF s.nextCommandId[a] < MaxRequests
                 THEN [SendRequest(s, a, m.src, GetInfo, UserProcessor)
                         EXCEPT !.infoAsked = @ \cup {<<a, s.nextCommandId[a]>>}]
                 ELSE s
           [] m.data = "RequestNext" -> RequestNextAll(s, a, DOMAIN s.streamInputs[a])
           [] m.data = "Acknowledge" ->
                 SendToSources(s, a, DOMAIN s.streamInputs[a], "streamAck")
           [] m.data = "AskClose" ->
                 SendToSources(s, a, DOMAIN s.streamInputs[a], "closeStream")
           [] m.data = "NewData" -> NewDataAvailable(s, a, DOMAIN s.streamOutputs[a])
           [] m.data = "Finish" -> FinishOutputs(s, a, DOMAIN s.streamOutputs[a])
           [] m.data = "Quit" -> Quit(s, a, UserErr)
           [] m.data = "Resume" -> ResumeCommand(s, a)
           [] m.data = "CancelCommand" -> CancelCommand(s, a, UserErr)
           [] m.data = "PromiseReplyWithError" ->
                 promiseReplyWithError(s, a, <<m.src, m.id>>, UserErr)
           [] m.data = "ReplyWithErrorFromPromise" ->
                 replyWithErrorFromPromise(s, a, <<m.src, m.id>>, UserErr)
           [] m.data = "Link" -> Link(s, a, m.src)
           [] m.data = "SendMessages" -> SendMessages(s, a, m.src, BatchPayload)
           [] m.data = "Monitor" -> Monitor(s, a, m.src)
           [] m.data = "DependOn" -> DependOn(s, a, m.src)
           [] m.data = "Depend" -> Depend(s, a, m.src)
           [] OTHER -> s

\* What processIncomingMessage does after the handler of the message: ready
\* outputs are flushed and reissued commands processed; the error of the
\* handler is the one returned.
afterMessage(s, a, h) ==
    [processReissuedCommands(FlushReadyOutputs([s EXCEPT !.perr = NoErr], a, h.fill), a, h)
       EXCEPT !.perr = s.perr]

processIncomingMessage(s0, a, m, h) ==
    LET s == IF Torn(s0.streamInputs[a], s0.streamOutputs[a], m)
             THEN [s0 EXCEPT !.stale = @ \cup {<<a, m.type>>}] ELSE s0
        s1 == CASE m.type = "command" -> processCommand(s, a, m, h)
                [] m.type = "notifyClose" -> processServiceFinished(s, a, m)
                [] m.type = "reply" -> processReply(s, a, m)
                [] m.type = "preReply" -> processPreReply(s, a, m)
                [] m.type = "quit" -> Quit(s, a, m.data)
                [] m.type = "close" -> [s EXCEPT !.state[a] = actorClosed]
                [] m.type = "cancelCommand" -> processCancelCommand(s, a, m)
                [] m.type = "establishLink" ->
                      [s EXCEPT !.incomingLinks[a][m.src] = m.data,
                                !.established = @ \cup {<<a, m.src, m.data>>}]
                [] m.type = "streamRequest" -> processStreamRequest(s, a, m, h.fill)
                [] m.type = "streamCanSend" -> processStreamCanSend(s, a, m, h.next)
                [] m.type = "streamReply" -> processStreamReply(s, a, m, h.next)
                [] m.type = "streamAck" -> processStreamAcknowledged(s, a, m)
                [] m.type = "closeStream" -> processCloseStream(s, a, m)
                [] m.type = "upstreamStopped" -> processUpstreamStopped(s, a, m)
                [] m.type = "downstreamStopped" -> processDownstreamStopped(s, a, m)
                [] OTHER -> runMessageProcessor(s, a, m)
    IN afterMessage(s1, a, h)

\* The choices of the user code that handles m.
Choices(s, a, m) ==
    IF m.type = "command"
    THEN {[NoChoice EXCEPT !.main = o, !.dest = d] :
             o \in {x \in CommandOutcomes(s.scenario, a) :
                      x = "proxy" => s.nextCommandId[a] < MaxRequests},
             d \in IF Targets(a) = {} THEN {NoActor} ELSE Targets(a)}
    ELSE IF m.type = "user" /\ m.data = "Resume"
    THEN {[NoChoice EXCEPT !.resumed = o] :
             o \in ResumedOutcomes(s.scenario, a)}
    ELSE IF m.type = "streamRequest" \/ (m.type = "user" /\ m.data \in {"NewData", "Finish"})
    THEN {[NoChoice EXCEPT !.fill = f] : f \in FillOutcomes(s.scenario)}
    ELSE IF m.type \in {"streamReply", "streamCanSend"}
    THEN {[NoChoice EXCEPT !.next = n] : n \in InputOutcomes(s.scenario)}
    ELSE {NoChoice}

-----------------------------------------------------------------------------
(* The processing loop *)

RECURSIVE Reverse(_)
Reverse(q) == IF q = <<>> THEN <<>> ELSE Reverse(Tail(q)) \o <<Head(q)>>

\* queue.TakeHead: the detached chain, newest item first.
TakeHead(q) == Reverse(q)

\* The messages of an array item, as the loop over the array appends them:
\* from the last element down to the first.
ArrayMessagesAscending(item) ==
    [i \in 1..Len(item.elems) |-> Msg("user", item.src, 0, item.elems[i], FALSE)]

ArrayMessages(item) ==
    [i \in 1..Len(item.elems) |->
        Msg("user", item.src, 0, item.elems[Len(item.elems) + 1 - i], FALSE)]

\* A first loop that puts every item in front of the ones before it.
RECURSIVE AppendChainBackwards(_)
AppendChainBackwards(chain) ==
    IF chain = <<>> THEN <<>>
    ELSE AppendChainBackwards(Tail(chain))
            \o (IF Head(chain).type = "array" THEN ArrayMessages(Head(chain))
                ELSE <<Head(chain)>>)

\* The first loop of processIncomingMessages: every item of the chain is
\* appended to a.messages, an array element by element.
RECURSIVE AppendChain(_)
AppendChain(chain) ==
    IF chain = <<>> THEN <<>>
    ELSE (IF Head(chain).type = "array" THEN ArrayMessages(Head(chain))
          ELSE <<Head(chain)>>) \o AppendChain(Tail(chain))

\* processIncomingMessages(nil), the actor woken with an empty chain, when
\* shouldQuit holds: the actor is Closed, Run returns and the system closes it.
processEmptyChain(s, a) ==
    close([s EXCEPT !.state[a] = actorClosed, !.pc[a] = "done"], a)

\* ProcessMessages up to the second loop of processIncomingMessages: the chain
\* is detached from the mailbox and copied to a.messages.  With an empty
\* chain the function returns at once, and changes something only when
\* shouldQuit holds.
ProcessMessages(a) ==
    /\ pc[a] = "idle"
    /\ IF queue[a] # <<>>
       THEN Apply([S EXCEPT !.messages[a] = AppendChain(TakeHead(queue[a])),
                           !.queue[a] = <<>>,
                           !.pc[a] = "drain"])
       ELSE shouldQuit(S, a) /\ Apply(processEmptyChain(S, a))

\* The end of processIncomingMessages, and of Run when it returns false: the
\* system closes the actor.
closeIfClosed(s, a) ==
    IF s.state[a] = actorClosed
    THEN close([s EXCEPT !.pc[a] = "done", !.queue[a] = <<>>], a)
    ELSE [s EXCEPT !.pc[a] = "idle"]

finishBatch(s, a) ==
    closeIfClosed(quitIfInactive(s, a), a)

\* After the last of the n messages left the batch is finished.
endOfBatch(s, a, n) == IF n = 1 THEN finishBatch(s, a) ELSE s

\* One iteration of the loop of processIncomingMessages, with the end of the
\* function after the last item.
processIncomingMessages(a) ==
    /\ pc[a] = "drain"
    /\ messages[a] # <<>>
    /\ LET n == Len(messages[a])
           m == messages[a][n]
           s0 == [S EXCEPT !.messages[a] = SubSeq(@, 1, n - 1),
                           !.linkMark = [x \in Actors |->
                                [@[x] EXCEPT ![a] = IF @ > 0 THEN @ - 1 ELSE @]]]
       IN \E h \in Choices(S, a, m) :
            Apply(endOfBatch(panicHandled(processIncomingMessage(s0, a, m, h), a), a, n))

-----------------------------------------------------------------------------
(* Environment *)

\* Something outside sends actor a a user message whose handler makes a call.
EnvSend(a) ==
    /\ budget > 0
    /\ pc[a] # "done"
    /\ \E c \in UserCalls(scenario, a) :
         Apply([enqueue(S, a, Msg("user", c.dst, c.id, c.op, FALSE)) EXCEPT !.budget = @ - 1])

\* System shutdown: a closeMessage for actor a.
Shutdown(a) ==
    /\ budget > 0
    /\ pc[a] # "done"
    /\ a \in ShutdownTargets(scenario)
    /\ Apply([enqueue(S, a, Msg("close", NoActor, 0, NoErr, FALSE)) EXCEPT !.budget = @ - 1])

-----------------------------------------------------------------------------
(* The registry's infoStateChangeStream *)

\* The names that services register under, and the number of Add calls.
Names == {"x", "y"}
MaxAdds == 3

\* The maxLen arguments of FillData: 0 asks for the default.
MaxLenArg == 2
DefaultMaxLen == 3

ErrOffsetOutOfRange == "ErrOffsetOutOfRange"

\* An Info{name, actor} is modelled by its name.
NewInfoStream == [buffer |-> <<>>, names |-> {}, startOffset |-> 0,
                  isAnyoneListening |-> FALSE]

Add(i, name) ==
    [i EXCEPT !.names = @ \cup {name},
              !.buffer = IF i.isAnyoneListening THEN Append(@, name) ELSE @]

\* What FillData returns: kind "data" with the entries and the next offset,
\* "nil" (no data), "err" with the error, or "panic" when the call fails at
\* run time (fault: "negative length" or "index out of range").
Filled(kind, data, next, err, fault) ==
    [kind |-> kind, data |-> data, next |-> next, err |-> err, fault |-> fault]

fillArray(i, offset, maxLen) ==
    LET len == Len(i.buffer) - offset + i.startOffset
        realLen == IF len > maxLen THEN maxLen ELSE len
        from == offset - i.startOffset
    IN IF realLen = 0 THEN Filled("nil", <<>>, offset, NoErr, "none")
       ELSE IF realLen < 0 THEN Filled("panic", <<>>, offset, NoErr, "negative length")
       ELSE IF from > Len(i.buffer) THEN Filled("panic", <<>>, offset, NoErr, "index out of range")
       ELSE Filled("data", SubSeq(i.buffer, from + 1, from + realLen), offset + realLen,
                   NoErr, "none")

\* FillData of the stream; slot is the kind of value the caller passes in:
\* "array" (*InfoArray), "info" (*Info) or "other".
InfoFillData(i, slot, offset, maxLen0) ==
    LET maxLen == IF maxLen0 = 0 THEN DefaultMaxLen ELSE maxLen0
        from == offset - i.startOffset
    IN IF offset < i.startOffset
       THEN Filled("err", <<>>, offset, ErrOffsetOutOfRange, "none")
       ELSE IF slot = "info"
       THEN IF from > Len(i.buffer)
            THEN Filled("err", <<>>, offset, ErrOffsetOutOfRange, "none")
            ELSE IF from = Len(i.buffer) THEN Filled("nil", <<>>, offset, NoErr, "none")
            ELSE Filled("data", <<i.buffer[from + 1]>>, offset + 1, NoErr, "none")
       ELSE fillArray(i, offset, maxLen)

\* The offset that GetLatestState returns.
EndOffset(i) == i.startOffset + Len(i.buffer)

GetLatestState(i) == [i EXCEPT !.isAnyoneListening = TRUE]

\* The slice expression of LastOffsetChanged fails at run time for an offset
\* below startOffset; the stream is then left as it was.
LastOffsetChangedPanics(i, offset) ==
    /\ Len(i.buffer) \div 2 >= offset - i.startOffset
    /\ offset < i.startOffset

\* A LastOffsetChanged that drops the entries and keeps startOffset.
LastOffsetChangedInPlace(i, offset) ==
    IF Len(i.buffer) \div 2 >= offset - i.startOffset /\ offset >= i.startOffset
    THEN [i EXCEPT !.buffer = SubSeq(@, offset - i.startOffset + 1, Len(@))]
    ELSE i

LastOffsetChanged(i, offset) ==
    IF Len(i.buffer) \div 2 >= offset - i.startOffset /\ offset >= i.startOffset
    THEN [i EXCEPT !.buffer = SubSeq(@, offset - i.startOffset + 1, Len(@)),
                   !.startOffset = offset]
    ELSE i

NoMoreSubscribers(i) ==
    [i EXCEPT !.buffer = <<>>, !.startOffset = 0, !.isAnyoneListening = FALSE]

\* The subscriber: start is the offset GetLatestState gave it, offset the one
\* it reads from next, got what FillData has given it, added what was Added
\* since it subscribed, last the kind of its last read (none after an Add),
\* reset whether NoMoreSubscribers was called since, adds the number of Add
\* calls, op the last operation on the stream, panics whether a
\* LastOffsetChanged call failed.
NoReader == [subscribed |-> FALSE, start |-> 0, offset |-> 0, got |-> <<>>,
             added |-> <<>>, last |-> "none", reset |-> FALSE, adds |-> 0,
             op |-> "none", panics |-> 0]

\* A service registers under name.
RegistryAdd(name) ==
    /\ reader.adds < MaxAdds
    /\ Apply([S EXCEPT !.infoStream = Add(@, name),
                       !.reader = [@ EXCEPT !.adds = @ + 1, !.op = "Add", !.last = "none",
                                           !.added = IF reader.subscribed
                                                     THEN Append(@, name) ELSE @]])

\* Some other subscriber arrives, before the reader or after the stream was
\* left without subscribers.
RegistryOtherSubscribes ==
    /\ ~reader.subscribed \/ reader.reset
    /\ ~infoStream.isAnyoneListening
    /\ Apply([S EXCEPT !.infoStream = GetLatestState(@),
                       !.reader.op = "GetLatestState"])

\* The reader subscribes.
RegistrySubscribe ==
    /\ ~reader.subscribed
    /\ Apply([S EXCEPT !.infoStream = GetLatestState(@),
                       !.reader = [@ EXCEPT !.subscribed = TRUE,
                                           !.start = EndOffset(infoStream),
                                           !.offset = EndOffset(infoStream),
                                           !.op = "GetLatestState"]])

\* The reader reads on from where its last read ended.
RegistryRead(slot, maxLen) ==
    /\ reader.subscribed
    /\ LET r == InfoFillData(infoStream, slot, reader.offset, maxLen)
       IN Apply([S EXCEPT !.reader = [@ EXCEPT !.offset = r.next,
                                             !.got = @ \o r.data,
                                             !.last = r.kind,
                                             !.op = "FillData"]])

\* The lowest offset of the subscribers is reported; it does not exceed the
\* offset of the reader.
RegistryLastOffsetChanged(offset) ==
    /\ offset <= (IF reader.subscribed /\ ~reader.reset THEN reader.offset
                  ELSE EndOffset(infoStream))
    /\ Apply([S EXCEPT !.infoStream = LastOffsetChanged(@, offset),
                       !.reader = [@ EXCEPT !.op = "LastOffsetChanged",
                                           !.panics = IF LastOffsetChangedPanics(infoStream, offset)
                                                      THEN 1 ELSE @]])

RegistryNoMoreSubscribers ==
    /\ infoStream.isAnyoneListening
    /\ Apply([S EXCEPT !.infoStream = NoMoreSubscribers(@),
                       !.reader = [@ EXCEPT !.op = "NoMoreSubscribers",
                                           !.reset = reader.subscribed]])

-----------------------------------------------------------------------------
(* The HTTP server's command batches *)

\* The commands of a batch.
MaxBatch == 3

\* No canceller (a nil interface value).
NilCanceller == 0

\* A batch: kind "plain" (processCommandBatch) or "rpc"
\* (processRpcCommandBatch); commands[i] is "ok" or, for a JSON-RPC command
\* that could not be resolved, "err"; promiseCounter is the counter that the
\* deliver closure counts down (promiseCounter, validCommands); cancellers is
\* the slice the OnCancel closure walks, a canceller named by the index of
\* its command; inflight the commands whose request awaits its reply; result
\* what each command gave; resolved what was done to the promise or reply
\* returned, in order; cancels how often each canceller was called; panicked
\* whether the walk of the OnCancel closure failed.
NoBatch == [kind |-> "none", commands |-> <<>>, promiseCounter |-> 0,
            cancellers |-> <<>>, inflight |-> {}, result |-> <<>>,
            resolved |-> <<>>, cancels |-> [i \in 1..MaxBatch |-> 0],
            cancelled |-> FALSE, panicked |-> FALSE]

\* The indices of the commands that are sent, in order.
Dispatched(commands) ==
    SelectSeq([i \in 1..Len(commands) |-> i], LAMBDA i : commands[i] = "ok")

\* make([]interfaces.Canceller, n): n nil entries.
MakeCancellers(n) == [i \in 1..n |-> NilCanceller]

processCommandBatch(commands) ==
    LET n == Len(commands)
    IN [NoBatch EXCEPT !.kind = "plain", !.commands = commands,
                       !.promiseCounter = n,
                       !.result = [i \in 1..n |-> "none"],
                       !.cancellers = MakeCancellers(n) \o Dispatched(commands),
                       !.inflight = 1..n]

\* ser: whether the batch of responses can be serialized.
processRpcCommandBatch(commands, ser) ==
    LET sent == Dispatched(commands)
        validCommands == Len(sent)
        b == [NoBatch EXCEPT !.kind = "rpc", !.commands = commands,
                             !.promiseCounter = validCommands,
                             !.result = [i \in 1..Len(commands) |->
                                            IF commands[i] = "ok" THEN "none" ELSE "err"],
                             !.cancellers = MakeCancellers(validCommands) \o sent,
                             !.inflight = {sent[k] : k \in 1..validCommands}]
    IN IF validCommands = 0
       THEN [b EXCEPT !.resolved = <<IF ser THEN "Reply" ELSE "Error">>]
       ELSE b

\* The deliver closure of both functions.
deliver(b, ser) ==
    LET b1 == [b EXCEPT !.promiseCounter = @ - 1]
    IN IF b1.promiseCounter = 0
       THEN [b1 EXCEPT !.resolved = Append(@, IF ser THEN "Deliver" ELSE "Fail")]
       ELSE b1

\* The ReplyProcessor of command i: OnReply and OnError.
OnReply(b, i, ser) ==
    deliver([b EXCEPT !.result[i] = "value", !.inflight = @ \ {i}], ser)

OnError(b, i, ser) ==
    deliver([b EXCEPT !.result[i] = "error", !.inflight = @ \ {i}], ser)

\* requestCanceller.Cancel: an inflight request gets Error(ErrCancelled).
CancelRequest(b, i, ser) ==
    LET b1 == [b EXCEPT !.cancels[i] = @ + 1]
    IN IF i \in b.inflight THEN OnError(b1, i, ser) ELSE b1

\* The closure given to promise.OnCancel, from entry k on: Cancel is called
\* on every entry of the slice; on a nil entry the call fails and the walk
\* ends.
RECURSIVE cancelAll(_, _, _)
cancelAll(b, k, ser) ==
    IF k > Len(b.cancellers) THEN b
    ELSE IF b.cancellers[k] = NilCanceller THEN [b EXCEPT !.panicked = TRUE]
    ELSE cancelAll(CancelRequest(b, b.cancellers[k], ser), k + 1, ser)

\* The batches that a request may hold.
Batches(kind) ==
    UNION {[1..n -> IF kind = "rpc" THEN {"ok", "err"} ELSE {"ok"}] : n \in 0..MaxBatch}

\* A request with a batch of commands arrives.
HttpBatch ==
    /\ batch.kind = "none"
    /\ \/ \E commands \in Batches("plain") :
             Apply([S EXCEPT !.batch = processCommandBatch(commands)])
       \/ \E commands \in Batches("rpc") : \E ser \in BOOLEAN :
             Apply([S EXCEPT !.batch = processRpcCommandBatch(commands, ser)])

\* The reply to the request of command i is handled.
HttpReply(i) ==
    /\ i \in batch.inflight
    /\ \E ser \in BOOLEAN :
          \/ Apply([S EXCEPT !.batch = OnReply(@, i, ser)])
          \/ Apply([S EXCEPT !.batch = OnError(@, i, ser)])

\* The promise that was returned for the batch is cancelled.
HttpCancel ==
    /\ batch.kind # "none"
    /\ batch.resolved = <<>>
    /\ ~batch.cancelled
    /\ \E ser \in BOOLEAN :
          Apply([S EXCEPT !.batch = [cancelAll(@, 1, ser) EXCEPT !.cancelled = TRUE]])

\* The state after Spawn: sc is the user program, withFsp the actors whose
\* behaviour sets a finished-service processor.
InitWith(sc, withFsp) ==
    /\ scenario = sc
    /\ state = [a \in Actors |-> actorRunning]
    /\ quitError = [a \in Actors |-> NoErr]
    /\ nextCommandId = [a \in Actors |-> 0]
    /\ inflightRequests = [a \in Actors |-> EmptyMap]
    /\ activePromises = [a \in Actors |-> EmptyMap]
    /\ incomingLinks = [a \in Actors |-> NoLinks]
    /\ outgoingLinks = [a \in Actors |-> NoLinks]
    /\ monitoringActors = [a \in Actors |-> {}]
    /\ currentStreamId = [a \in Actors |-> 0]
    /\ streamInputs = [a \in Actors |-> EmptyMap]
    /\ streamOutputs = [a \in Actors |-> EmptyMap]
    /\ readyOutputs = [a \in Actors |-> {}]
    /\ processors = [a \in Actors |-> a \notin NoHandlers(sc)]
    /\ fsp = [a \in Actors |-> a \in withFsp]
    /\ queue = [a \in Actors |-> <<>>]
    /\ messages = [a \in Actors |-> <<>>]
    /\ paused = [a \in Actors |-> <<>>]
    /\ pc = [a \in Actors |-> "idle"]
    /\ callbacks = [p \in PIDs |-> <<>>]
    /\ replies = [p \in PIDs |-> <<>>]
    /\ received = {}
    /\ cancelsSent = [p \in PIDs |-> 0]
    /\ fired = [p \in PIDs |-> 0]
    /\ exitRuns = [a \in Actors |-> 0]
    /\ fspRuns = [a \in Actors |-> <<>>]
    /\ lastCheck = [a \in Actors |-> NoCheck]
    /\ cancelled = {}
    /\ closeLog = [a \in Actors |-> NoClose]
    /\ established = {}
    /\ linkMark = [a \in Actors |-> [b \in Actors |-> -1]]
    /\ streamLog = [sid \in 1..MaxRequests |-> NoLog]
    /\ stale = {}
    /\ infoAsked = {}
    /\ forwarded = {}
    /\ proxied = {}
    /\ panicProcessor \in PanicProcessors(sc)
    /\ panicRuns = [a \in Actors |-> <<>>]
    /\ panicked = {}
    /\ returned = [a \in Actors |-> <<>>]
    /\ badStream = [a \in Actors |-> 0]
    /\ infoStream = NewInfoStream
    /\ reader = NoReader
    /\ batch = NoBatch
    /\ budget = MaxInputs

Init == InitWith("requests", {})

InitDelegate == InitWith("delegate", {})

InitLinks == InitWith("links", {"A"})

InitStreams == InitWith("streams", {})

InitBatch == InitWith("batch", {"B"})

InitFlow == InitWith("flow", {})

InitInfo == InitWith("info", {})

InitPanic == InitWith("panic", {})

InitExit == InitWith("exit", {})

InitEdges == InitWith("edges", {})

InitCancel == InitWith("cancel", {})

InitFill == InitWith("fill", {})

InitPromise == InitWith("promise", {})

InitStreamInit == InitWith("init", {})

Next ==
    \/ \E a \in Actors : EnvSend(a)
    \/ \E a \in Actors : Shutdown(a)
    \/ \E a \in Actors : ProcessMessages(a)
    \/ \E a \in Actors : processIncomingMessages(a)

InitHttp == InitWith("http", {})

NextHttp ==
    \/ HttpBatch
    \/ \E i \in 1..MaxBatch : HttpReply(i)
    \/ HttpCancel

\* The HTTP server handles one batch of commands.
SpecHttp == InitHttp /\ [][NextHttp]_vars

InitRegistry == InitWith("registry", {})

\* The offsets that FillData and LastOffsetChanged are called with, and the
\* kinds of value that FillData is given to fill.
Offsets == 0..(MaxAdds + 1)
Slots == {"array", "info", "other"}

NextRegistry ==
    \/ \E name \in Names : RegistryAdd(name)
    \/ RegistryOtherSubscribes
    \/ RegistrySubscribe
    \/ \E slot \in Slots : \E maxLen \in 0..MaxLenArg : RegistryRead(slot, maxLen)
    \/ \E offset \in Offsets : RegistryLastOffsetChanged(offset)
    \/ RegistryNoMoreSubscribers

\* The registry's stream of name changes with one reader.
SpecRegistry == InitRegistry /\ [][NextRegistry]_vars

\* Requests, replies, cancellation, deferred commands and shutdown between A and B.
Spec == Init /\ [][Next]_vars

\* A's requests are delegated by B to C.
SpecDelegate == InitDelegate /\ [][Next]_vars

\* A links with B and quits.
SpecLinks == InitLinks /\ [][Next]_vars

\* A requests streams from B, which serves them or passes them on to C.
SpecStreams == InitStreams /\ [][Next]_vars

\* A sends B single messages and arrays of messages.
SpecBatch == InitBatch /\ [][Next]_vars

\* A consumes streams of B, which gets new data and closes its outputs.
SpecFlow == InitFlow /\ [][Next]_vars

\* A asks B, whose handlers answer, fail, panic or pause, for its commands.
SpecInfo == InitInfo /\ [][Next]_vars

\* B's handlers panic, on fresh and on resumed commands, with and without a
\* panic processor.
SpecPanic == InitPanic /\ [][Next]_vars

\* B tells A that it holds A's command, and pauses it or, having resumed it,
\* delegates it to C; A may cancel.
SpecCancel == InitCancel /\ [][Next]_vars

\* B pauses A's commands and answers their promises with an error.
SpecPromise == InitPromise /\ [][Next]_vars

\* A asks B for streams; FillData of B's outputs may fail at any call.
SpecFill == InitFill /\ [][Next]_vars

\* A asks B for a stream, with or without a data slot, or sends it a plain
\* request; B sets up an output for whatever it gets.
SpecStreamInit == InitStreamInit /\ [][Next]_vars

\* A ties itself to B with Link, DependOn, Depend and Monitor; both may quit.
SpecEdges == InitEdges /\ [][Next]_vars

\* A sends B requests and quits; C, which has no handlers, only waits.
SpecExit == InitExit /\ [][Next]_vars

-----------------------------------------------------------------------------
(* Properties *)

Issued(p) == p[2] < nextCommandId[p[1]]

Outstanding(p) == p[2] \in DOMAIN inflightRequests[p[1]]

\* Actor a handles the mailbox item m in this step.
Handles(a, m) ==
    /\ pc[a] = "drain"
    /\ messages[a] # <<>>
    /\ messages[a][Len(messages[a])] = m
    /\ messages'[a] = SubSeq(messages[a], 1, Len(messages[a]) - 1)

\* The messages that may be handled.
HandledMsgs(a) == IF messages[a] = <<>> THEN {} ELSE {messages[a][Len(messages[a])]}

\* The first callback of request p came from a reply message.
ReplyProcessed(p) ==
    /\ callbacks[p] # <<>>
    /\ callbacks[p][1] # <<"Error", ErrCancelled>>

\* C1: every request that was issued has received no callback while it is in
\* the inflight table and exactly one callback (Process or Error) once it has
\* left the table, whether it left by a reply, by its canceller or by close().
C1_ExactlyOneCallback ==
    \A p \in PIDs :
        Issued(p) => IF Outstanding(p) THEN callbacks[p] = <<>>
                     ELSE Len(callbacks[p]) = 1

\* A canceller was fired, a reply was sent, and the request got one callback.
C1_Witness ==
    \E p \in PIDs :
        /\ p \in cancelled
        /\ Len(replies[p]) = 1
        /\ callbacks[p] = << <<"Error", ErrCancelled>> >>
        /\ closeLog[p[1]].done

\* C3: once the canceller of an outstanding request has been fired, the
\* request has received Error(Cancelled) exactly once, exactly one
\* CancelCommand was enqueued for it, and it is no longer in the inflight table.
C3_CancelOnce ==
    \A p \in cancelled :
        /\ callbacks[p] = << <<"Error", ErrCancelled>> >>
        /\ cancelsSent[p] = 1
        /\ ~Outstanding(p)

\* C4: firing the canceller of a request whose reply was already processed
\* invokes no callback, enqueues no CancelCommand and leaves the tables as they
\* were; a CancelCommand for a command that was already answered leaves the
\* destination as it was.  (The step may still end the batch and close the actor.)
C4_CancelAfterReply ==
    [][\A a \in Actors : \A m \in HandledMsgs(a) :
         /\ (/\ Handles(a, m)
             /\ m.type = "user" /\ m.data = "Cancel"
             /\ ReplyProcessed(<<a, m.id>>))
            => /\ callbacks'[<<a, m.id>>] = callbacks[<<a, m.id>>]
               /\ cancelsSent'[<<a, m.id>>] = cancelsSent[<<a, m.id>>]
               /\ pc'[a] # "done" =>
                     /\ inflightRequests' = inflightRequests
                     /\ callbacks' = callbacks
                     /\ cancelsSent' = cancelsSent
                     /\ \A b \in Actors \ {a} : queue'[b] = queue[b]
         /\ (/\ Handles(a, m)
             /\ m.type = "cancelCommand"
             /\ replies[<<m.src, m.id>>] # <<>>
             /\ <<m.src, m.id>> \notin DOMAIN activePromises[a])
            => /\ replies'[<<m.src, m.id>>] = replies[<<m.src, m.id>>]
               /\ paused' = paused
               /\ pc'[a] # "done" =>
                     /\ activePromises' = activePromises
                     /\ inflightRequests' = inflightRequests
                     /\ replies' = replies
                     /\ \A b \in Actors \ {a} : queue'[b] = queue[b]
      ]_vars

\* The canceller was fired after the reply had been processed.
C4_Witness ==
    \E p \in PIDs :
        fired[p] > 0 /\ p \notin cancelled /\ callbacks[p] = << <<"Process", "v">> >>

\* A CancelCommand is about to be handled by a destination that has already
\* answered the command.
C4_LateCancelCommand ==
    \E a \in Actors : \E m \in HandledMsgs(a) :
        /\ pc[a] = "drain"
        /\ m.type = "cancelCommand"
        /\ replies[<<m.src, m.id>>] # <<>>
        /\ <<m.src, m.id>> \notin DOMAIN activePromises[a]

Last(q) == q[Len(q)]

C7_ClosedIsFinal ==
    [][\A a \in Actors :
         state[a] = actorClosed =>
            state'[a] = actorClosed /\ quitError'[a] = quitError[a]]_vars

\* C8: an item handled while the actor is Closed (here: not the last item of
\* its batch, after which close() runs) invokes no handler or callback and
\* enqueues nothing.
C8_ClosedDropsItems ==
    [][\A a \in Actors : \A m \in HandledMsgs(a) :
         (Handles(a, m) /\ state[a] = actorClosed /\ pc'[a] = "drain")
            => /\ callbacks' = callbacks
               /\ replies' = replies
               /\ received' = received
               /\ fspRuns' = fspRuns
               /\ exitRuns' = exitRuns
               /\ \A b \in Actors \ {a} : queue'[b] = queue[b]]_vars

\* C9: the quiescence check leaves the actor Closed exactly when, as the check
\* decides, the actor has no processors, no inflight request, no active
\* promise, no stream, and no monitored actor if it has a finished-service
\* processor.
C9_QuiescenceIff ==
    \A a \in Actors :
        lastCheck[a].ran =>
            ((lastCheck[a].after = actorClosed)
               <=> /\ ~lastCheck[a].processors
                   /\ lastCheck[a].inflight = 0
                   /\ lastCheck[a].promises = 0
                   /\ (~lastCheck[a].fsp \/ lastCheck[a].monitoring = 0)
                   /\ lastCheck[a].inputs = 0
                   /\ lastCheck[a].outputs = 0)

\* An actor that has Quit was checked while it held an inflight request and
\* stayed Quitting, and another was closed by the check.
C9_Witness ==
    /\ \E a \in Actors :
          /\ lastCheck[a].ran /\ lastCheck[a].before = actorQuitting
          /\ lastCheck[a].inflight > 0 /\ lastCheck[a].after = actorQuitting
    /\ \E a \in Actors :
          lastCheck[a].ran /\ lastCheck[a].after = actorClosed

\* The command p is neither waiting in a mailbox nor owed a reply by an actor.
Settled(p) ==
    \A a \in Actors :
        /\ p \notin DOMAIN activePromises[a]
        /\ \A i \in 1..Len(queue[a]) :
              ~(queue[a][i].type = "command" /\ <<queue[a][i].src, queue[a][i].id>> = p)
        /\ \A i \in 1..Len(messages[a]) :
              ~(messages[a][i].type = "command" /\ <<messages[a][i].src, messages[a][i].id>> = p)

\* C2: a command that an actor received from an origin that is not Closed is
\* never answered twice, and it has been answered once when no actor holds it
\* any more.
C2_ExactlyOneReply ==
    \A p \in received :
        state[p[1]] # actorClosed =>
            /\ Len(replies[p]) <= 1
            /\ Settled(p) => Len(replies[p]) = 1

\* C2, the first half alone: no command is answered twice.
C2_AtMostOneReply ==
    \A p \in received : state[p[1]] # actorClosed => Len(replies[p]) <= 1

\* C5: after close() the inflight table, the active-promise table, the stream
\* tables, the ready-output set and both link maps of the actor are empty.
C5_ClosedTablesEmpty ==
    \A a \in Actors :
        closeLog[a].done =>
            /\ inflightRequests[a] = EmptyMap
            /\ activePromises[a] = EmptyMap
            /\ streamInputs[a] = EmptyMap
            /\ streamOutputs[a] = EmptyMap
            /\ readyOutputs[a] = {}
            /\ incomingLinks[a] = NoLinks
            /\ outgoingLinks[a] = NoLinks

\* B has closed while it held a promise made by proxy delegation, the inflight
\* request that the promise's cancel callback cancels, a stream output and a link.
C5_Witness ==
    /\ closeLog["B"].done
    /\ \E pid \in DOMAIN closeLog["B"].promises :
          /\ closeLog["B"].promises[pid].kind = "proxy"
          /\ closeLog["B"].promises[pid].req \in DOMAIN closeLog["B"].inflight
    /\ closeLog["B"].outputs # EmptyMap
    /\ closeLog["B"].incoming["A"] = linkLink

\* A has closed while it held a stream input whose source it knew.
C5_ClosedWithInput ==
    /\ closeLog["A"].done
    /\ \E sid \in DOMAIN closeLog["A"].inputs : closeLog["A"].inputs[sid].source = "B"

\* The number of Quit messages without an error that actor a has put in q.
QuitsFrom(q, a) ==
    Cardinality({i \in 1..Len(q) : q[i] = Msg("quit", a, 0, NoErr, FALSE)})

NotifiesFrom(q, a, err) ==
    Cardinality({i \in 1..Len(q) : q[i] = Msg("notifyClose", a, 0, err, FALSE)})

\* Actor a closes in this step.
Closes(a) == ~closeLog[a].done /\ closeLog'[a].done

\* C11: when A closes with quit error E after it has processed the
\* EstablishLink of P's Monitor(A), P (unless it has ended) is sent one
\* NotifyClose{A, E} and no Quit message; a P that handles a NotifyClose{A, E}
\* runs its finished-service processor once with (A, E) and drops A from its
\* monitoring set.
C11_MonitorNotified ==
    [][/\ \A a \in Actors : \A p \in Actors \ {a} :
            (Closes(a) /\ <<a, p, linkMonitor>> \in established /\ pc[p] # "done")
               => /\ NotifiesFrom(queue'[p], a, quitError'[a])
                        = NotifiesFrom(queue[p], a, quitError'[a]) + 1
                  /\ QuitsFrom(queue'[p], a) = QuitsFrom(queue[p], a)
       /\ \A p \in Actors : \A m \in HandledMsgs(p) :
            (Handles(p, m) /\ m.type = "notifyClose")
               => /\ fsp[p] => fspRuns'[p] = Append(fspRuns[p], <<m.src, m.data>>)
                  /\ m.src \notin monitoringActors'[p]
      ]_vars

\* C11 with one more premise: P has asked A for no other kind of link
\* (Link or DependOn) and A has not declared P its dependant.
C11_MonitorOnlyNotified ==
    [][/\ \A a \in Actors : \A p \in Actors \ {a} :
            (/\ Closes(a) /\ closeLog'[a].incoming[p] = linkMonitor
             /\ closeLog'[a].outgoing[p] = linkNone
             /\ pc[p] # "done")
               => /\ NotifiesFrom(queue'[p], a, quitError'[a])
                        = NotifiesFrom(queue[p], a, quitError'[a]) + 1
                  /\ QuitsFrom(queue'[p], a) = QuitsFrom(queue[p], a)
       /\ \A p \in Actors : \A m \in HandledMsgs(p) :
            (Handles(p, m) /\ m.type = "notifyClose")
               => /\ fsp[p] => fspRuns'[p] = Append(fspRuns[p], <<m.src, m.data>>)
                  /\ m.src \notin monitoringActors'[p]
      ]_vars

\* A, which monitors B, has run its finished-service processor with B's quit error.
C11_Witness ==
    /\ closeLog["B"].done /\ closeLog["B"].quitError = UserErr
    /\ fspRuns["A"] = << <<"B", UserErr>> >>
    /\ "B" \notin monitoringActors["A"]

\* C13: a.messages is handled from its last element to its first; when a
\* batch is detached, that order is the order in which the items were
\* enqueued, oldest first, with every array flattened in place in array
\* order; and each step of the loop handles exactly the next item.
C13_BatchInEnqueueOrder ==
    [][\A a \in Actors :
         /\ (pc[a] = "idle" /\ pc'[a] = "drain")
               => Reverse(messages'[a]) = Flattened(queue[a])
         /\ (pc[a] = "drain" /\ messages'[a] # messages[a])
               => /\ messages[a] # <<>>
                  /\ messages'[a] = SubSeq(messages[a], 1, Len(messages[a]) - 1)
      ]_vars

\* B has detached a batch of an array of A's messages and at least one other
\* item, and has handled the first element of the array.
C13_Witness ==
    /\ pc["B"] = "drain"
    /\ "A" \in monitoringActors["B"]
    /\ messages["B"] # <<>>
    /\ Last(messages["B"]) = Msg("user", "A", 0, "Quit", FALSE)
    /\ Len(messages["B"]) >= 2

\* C12: once B has handled every item that was ahead of the establishLink of
\* A's Link(B) call, and that establishLink itself, B has recorded the Link
\* entry for A: no item A enqueued to B after the call is handled before.
C12_LinkRecordedFirst ==
    \A a \in Actors : \A b \in Actors :
        linkMark[a][b] = 0 => <<b, a, linkLink>> \in established

\* The same, step by step: the step in which B handles the establishLink
\* records the entry, and no earlier step of B does.
C12_LinkRecordedByEstablish ==
    [][\A a \in Actors : \A b \in Actors :
         /\ (linkMark[a][b] = 1 /\ linkMark'[a][b] = 0)
               => /\ Last(messages[b]) = Msg("establishLink", a, 0, linkLink, FALSE)
                  /\ <<b, a, linkLink>> \in established'
         /\ (linkMark[a][b] > 1 /\ <<b, a, linkLink>> \notin established)
               => <<b, a, linkLink>> \notin established'
      ]_vars

\* B is inside a batch that held the establishLink of A's Link(B) call and,
\* behind it, a request of A: the link is recorded and the request is next.
C12_Witness ==
    /\ linkMark["A"]["B"] = 0
    /\ pc["B"] = "drain"
    /\ messages["B"] # <<>>
    /\ Last(messages["B"]).type = "command"
    /\ Last(messages["B"]).src = "A"
    /\ incomingLinks["B"]["A"] = linkLink
    /\ <<"B", "A", linkLink>> \in established

\* C14: on every stream the input's Process has run as often as the consumer
\* has handled a streamReply for the registered input, and the consumer has
\* issued at least as many data requests as it has handled replies.
C14_ProcessPerReply ==
    \A sid \in 1..MaxRequests :
        /\ Len(streamLog[sid].process) = streamLog[sid].repRecv
        /\ streamLog[sid].repRecv <= streamLog[sid].reqSent

\* C14, the count of Process calls when the calls made for a streamCanSend
\* (with no data) are left out.
C14_DataProcessPerReply ==
    \A sid \in 1..MaxRequests :
        Len(SelectSeq(streamLog[sid].process, LAMBDA d : d # NoErr)) = streamLog[sid].repRecv

\* C15: on every stream the producer has emitted at most as many streamReply
\* messages as it has taken data requests (the request that InitStreamOutput
\* consumes and the streamRequest messages it has handled for the output).
C15_ReplyPerRequest ==
    \A sid \in 1..MaxRequests : streamLog[sid].repSent <= streamLog[sid].reqRecv

\* C15 for outputs that were never armed: no data request is stored, so that
\* marking them ready has no effect and every reply answers a request.
C15_ReplyPerRequestUnarmed ==
    \A a \in Actors : \A oid \in DOMAIN streamOutputs[a] :
        ~streamOutputs[a][oid].armed
            => streamLog[oid[1]].repSent <= streamLog[oid[1]].reqRecv

\* The data that Process was given, the calls without data left out.
DataOf(log) == SelectSeq(log, LAMBDA d : d # NoErr)

IsPrefix(p, q) == Len(p) <= Len(q) /\ p = SubSeq(q, 1, Len(p))

\* The chunks of a stream in the order its output gives them.
AllChunks == [i \in 1..MaxChunks |-> ChunkOf(i)]

StreamTypes == {"streamCanSend", "streamRequest", "streamReply", "streamAck", "closeStream",
                "upstreamStopped", "downstreamStopped"}

\* A stream message of stream sid waits in a mailbox or in a detached batch.
StreamPending(sid) ==
    \E a \in Actors :
        \/ \E i \in 1..Len(queue[a]) :
              queue[a][i].type \in StreamTypes /\ queue[a][i].id = sid
        \/ \E i \in 1..Len(messages[a]) :
              messages[a][i].type \in StreamTypes /\ messages[a][i].id = sid

\* The producer of stream sid has emitted all its chunks and closed the
\* output without error, the consumer has not ended the stream itself, and
\* every stream message has been handled.
CleanEnd(sid) ==
    /\ streamLog[sid].repSent = MaxChunks
    /\ streamLog[sid].streamClosed = <<NoErr>>
    /\ \A i \in 1..Len(streamLog[sid].closed) : streamLog[sid].closed[i] = NoErr
    /\ ~StreamPending(sid)
    /\ pc["A"] # "done"

\* C16: the input's Process is given the chunks in the order the output
\* emits them, none left out; once the closed callback has run, Process runs
\* no more; and when the producer has emitted x, y, z and closed without
\* error, Process was given x, y, z, the closed callback ran once with a nil
\* error, and neither stream table holds the stream.
C16_ChunksThenClosed ==
    /\ [](\A sid \in 1..MaxRequests :
            /\ IsPrefix(DataOf(streamLog[sid].process), AllChunks)
            /\ CleanEnd(sid)
                  => /\ DataOf(streamLog[sid].process) = AllChunks
                     /\ streamLog[sid].closed = <<NoErr>>
                     /\ \A a \in Actors :
                           /\ sid \notin DOMAIN streamInputs[a]
                           /\ \A oid \in DOMAIN streamOutputs[a] : oid[1] # sid)
    /\ [][\A sid \in 1..MaxRequests :
            streamLog[sid].closed # <<>>
                => streamLog'[sid].process = streamLog[sid].process]_vars

\* Stream 1 has ended cleanly after x, y and z.
C16_Witness ==
    /\ CleanEnd(1)
    /\ streamLog[1].process = <<"x", "y", "z">>
    /\ streamLog[1].closed = <<NoErr>>
    /\ streamInputs["A"] = EmptyMap
    /\ streamOutputs["B"] = EmptyMap

\* Actor b handles, in this step, a user message that marks its outputs
\* ready (NewDataAvailable).
HandlesNewData(b) ==
    /\ pc[b] = "drain"
    /\ messages[b] # <<>>
    /\ messages'[b] # messages[b]
    /\ Last(messages[b]).type = "user"
    /\ Last(messages[b]).data = "NewData"
    /\ processors[b]

\* The streamReply messages of stream sid in mailbox q.
RepliesIn(q, sid) == SelectSeq(q, LAMBDA m : m.type = "streamReply" /\ m.id = sid)

\* C17, the flush: when an armed output is marked ready, the flush after
\* the item calls FillData once; either it gives the next chunk, and one
\* streamReply with that chunk goes to the consumer, or it gives nothing,
\* and no reply goes out and no chunk is used up.
C17_ArmedFlush ==
    [][\A b \in Actors : \A oid \in DOMAIN streamOutputs[b] :
         (HandlesNewData(b) /\ streamOutputs[b][oid].armed)
            => LET sid == oid[1]
                   c == oid[2]
                   out == streamOutputs[b][oid]
                   kept == oid \in DOMAIN streamOutputs'[b]
               IN /\ streamLog'[sid].fill = streamLog[sid].fill + 1
                  /\ \/ /\ streamLog'[sid].repSent = streamLog[sid].repSent + 1
                        /\ Len(RepliesIn(queue'[c], sid)) = Len(RepliesIn(queue[c], sid)) + 1
                        /\ Last(RepliesIn(queue'[c], sid)).data = ChunkOf(out.sent + 1)
                        /\ kept => streamOutputs'[b][oid].sent = out.sent + 1
                     \/ /\ streamLog'[sid].repSent = streamLog[sid].repSent
                        /\ RepliesIn(queue'[c], sid) = RepliesIn(queue[c], sid)
                        /\ kept => streamOutputs'[b][oid].sent = out.sent
      ]_vars

\* C17, nothing lost: Process is given the chunks in the order they are
\* emitted, and once the consumer has handled its stream messages every chunk
\* emitted for a registered input has been given to Process.
C17_NoChunkLost ==
    \A sid \in 1..MaxRequests :
        /\ IsPrefix(DataOf(streamLog[sid].process), AllChunks)
        /\ (sid \in DOMAIN streamInputs["A"] /\ ~StreamPending(sid))
              => Len(DataOf(streamLog[sid].process)) = streamLog[sid].repSent

\* C17, the producer waits: while every data request the consumer has issued
\* is answered, the producer emits no streamReply.
C17_ProducerWaits ==
    [][\A sid \in 1..MaxRequests :
         streamLog[sid].repSent >= streamLog[sid].reqSent
            => streamLog'[sid].repSent = streamLog[sid].repSent
      ]_vars

\* C17: the flush of an armed output that was marked ready emits the stored
\* request's reply, the producer emits nothing while the consumer withholds
\* its next request, and no chunk is skipped or lost.
C17_FlushAndBackpressure ==
    C17_ArmedFlush /\ C17_ProducerWaits /\ []C17_NoChunkLost

\* C18: when an actor handles a stream message for a stream that its table
\* no longer holds, and the batch does not end in close(), nothing of the
\* actor changes, no stream callback runs, and no message is emitted.
C18_TornDownIsSilent ==
    [][\A a \in Actors :
         (/\ pc[a] = "drain"
          /\ messages[a] # <<>>
          /\ messages'[a] # messages[a]
          /\ Torn(streamInputs[a], streamOutputs[a], Last(messages[a]))
          /\ pc'[a] # "done")
            => /\ UNCHANGED <<state, quitError, nextCommandId, inflightRequests,
                              activePromises, incomingLinks, outgoingLinks,
                              monitoringActors, currentStreamId, streamInputs,
                              streamOutputs, readyOutputs, processors, paused>>
               /\ UNCHANGED <<streamLog, callbacks, replies, fspRuns>>
               /\ UNCHANGED queue
      ]_vars

\* Both sides have handled late stream messages: the consumer a streamReply
\* and a second stop, the producer a streamRequest and a second stop.
C18_Witness ==
    /\ <<"A", "upstreamStopped">> \in stale
    /\ <<"B", "downstreamStopped">> \in stale
    /\ pc["A"] = "idle" /\ pc["B"] = "idle"

\* Actor b handles, in this step, the command m.
HandlesCommand(b, m) ==
    /\ pc[b] = "drain"
    /\ messages[b] # <<>>
    /\ messages'[b] # messages[b]
    /\ Last(messages[b]) = m

\* C19: a request sent with a GetInfo payload is never handed to a command
\* handler and gets at most one reply; the step in which its command is
\* handled emits that reply, the table of commands, to the origin.
C19_GetInfoRepliesItself ==
    /\ [](\A pid \in infoAsked :
            /\ pid \notin received
            /\ Len(replies[pid]) <= 1
            /\ \A i \in 1..Len(replies[pid]) : replies[pid][i] = <<FALSE, "commands">>)
    /\ [][\A b \in Actors : \A pid \in infoAsked :
            HandlesCommand(b, commandMessage(pid[1], pid[2], GetInfo))
                => /\ replies[pid] = <<>>
                   /\ replies'[pid] = << <<FALSE, "commands">> >>
                   /\ received' = received
                   /\ pc'[b] # "done"
                         => paused' = paused /\ activePromises' = activePromises
         ]_vars

\* B, which has paused a request of A, has answered A's GetInfo request, and
\* A has processed the answer.
C19_Witness ==
    /\ \E pid \in infoAsked :
          /\ replies[pid] = << <<FALSE, "commands">> >>
          /\ callbacks[pid] = << <<"Process", "commands">> >>
    /\ paused["B"] # <<>>

\* A reply for request pid waits in the mailbox or the detached batch of a.
ReplyPending(a, pid) ==
    \/ \E i \in 1..Len(queue[a]) :
          queue[a][i].type = "reply" /\ queue[a][i].id = pid[2]
    \/ \E i \in 1..Len(messages[a]) :
          messages[a][i].type = "reply" /\ messages[a][i].id = pid[2]

\* C20: the step in which b, holding no promise for the command it handles,
\* calls Delegate enqueues that command as it is (same origin, same id) to
\* the destination (a destination that still runs has it appended), emits no reply for it and records no promise for it;
\* the origin's ReplyProcessor gets at most one Process call, and when the
\* destination has replied v and the origin, which has not cancelled the
\* request, has handled the reply, it has got exactly Process(v).
C20_DelegateForwards ==
    /\ [][\A f \in forwarded' \ forwarded :
            LET b == f[1]
                pid == <<f[2], f[3]>>
                m == Last(messages[b])
            IN /\ m.type = "command" /\ m.src = f[2] /\ m.id = f[3]
               /\ pid \notin DOMAIN activePromises[b]
               /\ pc[f[4]] # "done" => queue'[f[4]] = Append(queue[f[4]], m)
               /\ replies'[pid] = replies[pid]
               /\ pc'[b] # "done" => pid \notin DOMAIN activePromises'[b]
         ]_vars
    /\ [](\A f \in forwarded :
            LET pid == <<f[2], f[3]>>
            IN /\ Len(SelectSeq(callbacks[pid], LAMBDA c : c[1] = "Process")) <= 1
               /\ (/\ replies[pid] = << <<FALSE, "v">> >>
                   /\ ~ReplyPending(pid[1], pid)
                   /\ fired[pid] = 0
                   /\ pc[pid[1]] # "done")
                     => callbacks[pid] = << <<"Process", "v">> >>)

\* B passed A's request on to C, C replied v, and A processed the reply.
C20_Witness ==
    /\ <<"B", "A", 0, "C">> \in forwarded
    /\ replies[<<"A", 0>>] = << <<FALSE, "v">> >>
    /\ callbacks[<<"A", 0>>] = << <<"Process", "v">> >>
    /\ activePromises["B"] = EmptyMap

\* The path of C21 on which the delegatee answers: the step in which b
\* delegates by proxy sends b's own request to the destination, stores a
\* promise whose cancel callback cancels that request and emits no reply;
\* the step in which b handles the outcome of that request emits exactly
\* that outcome as a reply to the origin and drops the promise.
C21_ProxyForwardsOutcome ==
    [][/\ \A f \in proxied' \ proxied :
            LET b == f[1]
                pid == <<f[2], f[3]>>
                m == Last(messages[b])
            IN /\ m.type = "command" /\ <<m.src, m.id>> = pid
               /\ f[4] = nextCommandId[b] /\ nextCommandId'[b] = f[4] + 1
               /\ replies'[pid] = replies[pid]
               /\ \A c \in Targets(b) :
                     pc[c] # "done" =>
                        queue'[c] = Append(queue[c], commandMessage(b, f[4], m.stream))
               /\ pc'[b] # "done" =>
                     /\ activePromises'[b][pid] = ProxyCancel(f[4])
                     /\ inflightRequests'[b][f[4]] = ProxyProcessor(pid[1], pid[2])
       /\ \A f \in proxied : \A m \in HandledMsgs(f[1]) :
            LET b == f[1]
                pid == <<f[2], f[3]>>
            IN (/\ Handles(b, m) /\ m.type = "reply" /\ m.id = f[4]
                /\ f[4] \in DOMAIN inflightRequests[b])
                  => /\ replies'[pid] = Append(replies[pid], <<m.err, m.data>>)
                     /\ pid \notin DOMAIN activePromises'[b]
      ]_vars

\* C21: a command that b delegates while it holds an active promise for it
\* is answered from the outcome of b's own request (see above) with a single
\* reply, and b sends its origin no other reply: it is never answered twice.
C21_ProxySingleReply ==
    \A f \in proxied : Len(replies[<<f[2], f[3]>>]) <= 1

\* B has answered A's command with the value that C gave to B's own request.
C21_Forwarded ==
    \E f \in proxied :
        /\ f[1] = "B"
        /\ callbacks[<<"B", f[4]>>] = << <<"Process", "v">> >>
        /\ replies[<<f[2], f[3]>>] = << <<FALSE, "v">> >>
        /\ <<f[2], f[3]>> \notin DOMAIN activePromises["B"]

\* C22: the step in which the handler of a fresh command panics (the command
\* still being the current one) emits exactly one reply for the command, an
\* error reply with the captured error, calls onPanic exactly once with that
\* error (the panic processor if one is set, else Quit(err)) and stays in
\* the loop when items of the batch remain; the command is never answered
\* again.
C22_PanicContained ==
    /\ [][\A k \in panicked' \ panicked : \A b \in Actors : \A m \in HandledMsgs(b) :
            (Handles(b, m) /\ k[1] = "fresh" /\ m.type = "command" /\ <<m.src, m.id>> = <<k[2], k[3]>>)
               => /\ replies'[<<k[2], k[3]>>] = Append(replies[<<k[2], k[3]>>], <<TRUE, PanicErr>>)
                  /\ panicRuns'[b] = Append(panicRuns[b], PanicErr)
                  /\ IF panicProcessor[b] THEN quitError'[b] = quitError[b]
                     ELSE quitError'[b] = PanicErr /\ state'[b] # actorRunning
                  /\ Len(messages[b]) > 1 => pc'[b] = "drain"
         ]_vars
    /\ [](\A k \in panicked :
            k[1] = "fresh" => replies[<<k[2], k[3]>>] = << <<TRUE, PanicErr>> >>)

\* The handler of B, which has no panic processor, panicked on the first
\* command of a batch; B has quit with the error and is about to handle the
\* next command of the batch.
C22_Witness ==
    /\ <<"fresh", "A", 0>> \in panicked
    /\ ~panicProcessor["B"]
    /\ panicRuns["B"] = <<PanicErr>>
    /\ replies[<<"A", 0>>] = << <<TRUE, PanicErr>> >>
    /\ state["B"] = actorQuitting /\ quitError["B"] = PanicErr
    /\ pc["B"] = "drain"
    /\ messages["B"] # <<>> /\ Last(messages["B"]) = commandMessage("A", 1, NoStream)

\* The command messages in q.
CommandsIn(q) == SelectSeq(q, LAMBDA x : x.type = "command")

\* C23: a SendRequest that the user code of a Closed actor calls returns a nil
\* canceller, allocates no command id, adds nothing to the inflight table
\* and enqueues no command; the ReplyProcessor of a request that was never
\* issued is never called.
C23_SendRequestOnClosed ==
    /\ [][\A a \in Actors : \A m \in HandledMsgs(a) :
            (/\ Handles(a, m) /\ m.type = "user" /\ m.data = "SendRequest"
             /\ state[a] = actorClosed /\ processors[a]
             /\ nextCommandId[a] < MaxRequests)
               => /\ returned'[a] = Append(returned[a], [nil |-> TRUE, id |-> 0])
                  /\ nextCommandId'[a] = nextCommandId[a]
                  /\ DOMAIN inflightRequests'[a] \subseteq DOMAIN inflightRequests[a]
                  /\ \A b \in Actors : CommandsIn(queue'[b]) = CommandsIn(queue[b])
         ]_vars
    /\ [](\A p \in PIDs : ~Issued(p) => callbacks[p] = <<>>)

\* A, closed by a closeMessage earlier in the batch, has called SendRequest
\* once, and once before while it was running.
C23_Witness ==
    /\ state["A"] = actorClosed
    /\ returned["A"] = << [nil |-> FALSE, id |-> 0], [nil |-> TRUE, id |-> 0] >>
    /\ nextCommandId["A"] = 1

\* The half of C24 about the reply: the step in which the handler of a
\* resumed command panics emits exactly one reply for the command, an error
\* reply with the captured error.
C24_ResumedPanicReplies ==
    [][\A k \in panicked' \ panicked :
         k[1] = "resumed"
            => replies'[<<k[2], k[3]>>] = Append(replies[<<k[2], k[3]>>], <<TRUE, PanicErr>>)
      ]_vars

\* C24: a panic of the handler of a resumed command has the outcome of a
\* panic on a fresh command: the error reply with the captured error, and
\* one call of onPanic with that error (the panic processor if one is set,
\* else Quit(err)).
C24_ResumedPanicContained ==
    [][\A k \in panicked' \ panicked : \A b \in Actors : \A m \in HandledMsgs(b) :
         (Handles(b, m) /\ k[1] = "resumed")
            => /\ replies'[<<k[2], k[3]>>] = Append(replies[<<k[2], k[3]>>], <<TRUE, PanicErr>>)
               /\ panicRuns'[b] = Append(panicRuns[b], PanicErr)
               /\ ~panicProcessor[b] => quitError'[b] = PanicErr /\ state'[b] # actorRunning
      ]_vars

\* Actor a handles a closeMessage in this step.
HandlesClose(a) == pc[a] = "drain" /\ messages[a] # <<>> /\ Last(messages[a]).type = "close"

\* The half of C25 about the loop over a batch: an actor that becomes Closed
\* while it handles an item other than a closeMessage (the quiescence check
\* after the item or at the end of the batch closed it) has run its exit
\* processor.
C25_ExitBeforeClosedInLoop ==
    [][\A a \in Actors :
         (/\ state[a] # actorClosed /\ state'[a] = actorClosed
          /\ pc[a] = "drain" /\ ~HandlesClose(a))
            => /\ exitRuns'[a] > 0
               /\ lastCheck'[a].ran /\ lastCheck'[a].after = actorClosed
      ]_vars

\* C25: an actor that becomes Closed because the quiescence predicate holds
\* (and not by a closeMessage) has run its exit processor, on every path:
\* in the loop over a batch and when it is woken with an empty chain.
C25_ExitBeforeClosed ==
    [][\A a \in Actors :
         (state[a] # actorClosed /\ state'[a] = actorClosed /\ ~HandlesClose(a))
            => exitRuns'[a] > 0
      ]_vars

\* C26: over its whole lifetime an actor's exit processor is invoked at most
\* once, also when the actor stays Quitting across several messages.
C26_ExitProcessorOnce == \A a \in Actors : exitRuns[a] <= 1

\* Actor a, closing in this step, enqueues at least one Quit to p.
QuitSentTo(a, p) == QuitsFrom(queue'[p], a) > QuitsFrom(queue[p], a)

\* C27: close propagates along lifecycle edges in their documented
\* directions.  When a closes and p has not ended: if a called Link(p), or a
\* has processed the establishLink of p's Link(a) or of p's DependOn(a), or a
\* called Depend(p), then a Quit is enqueued to p; with none of these edges
\* (only DependOn(p) or Monitor calls of a, only Depend(a) or Monitor calls
\* of p) no Quit is enqueued to p.
C27_EdgesPropagate ==
    [][\A a \in Actors : \A p \in Actors \ {a} :
         (Closes(a) /\ pc[p] # "done")
            => LET linkOut == linkMark[a][p] # -1
                   linkIn == <<a, p, linkLink>> \in established'
                   dependIn == <<a, p, linkDepend>> \in established'
                   kill == closeLog'[a].outgoing[p] = linkKill
               IN /\ (linkOut \/ linkIn \/ dependIn \/ kill) => QuitSentTo(a, p)
                  /\ ~(linkOut \/ linkIn \/ dependIn \/ kill) => ~QuitSentTo(a, p)
      ]_vars

\* What close() does with the two link maps as they are when it runs: one
\* Quit for an incoming Link or Depend entry, one for an outgoing Link or
\* Kill entry, none for any other entry.
C27_EdgesBySlot ==
    [][\A a \in Actors : \A p \in Actors \ {a} :
         (Closes(a) /\ pc[p] # "done")
            => QuitsFrom(queue'[p], a) = QuitsFrom(queue[p], a)
                 + (IF closeLog'[a].incoming[p] \in {linkLink, linkDepend} THEN 1 ELSE 0)
                 + (IF closeLog'[a].outgoing[p] \in {linkLink, linkKill} THEN 1 ELSE 0)
      ]_vars

\* A has closed while it depended on B only (DependOn), and B got no Quit.
C27_DependOnOneWay ==
    /\ closeLog["A"].done /\ ~closeLog["B"].done
    /\ <<"B", "A", linkDepend>> \in established
    /\ linkMark["A"]["B"] = -1 /\ closeLog["A"].outgoing["B"] = linkNone
    /\ state["B"] = actorRunning

\* What the step of b that handles cancelCommand m does to the promise pid
\* and to the rest of b, apart from a reply to the origin.
CancelCommandEffect(b, pid) ==
    IF pid \in DOMAIN activePromises[b]
    THEN LET cb == activePromises[b][pid]
         IN /\ pid \notin DOMAIN activePromises'[b]
            /\ cb.kind = "paused" => paused'[b] = SeqWithout(paused[b], pid)
            /\ cb.kind = "proxy" =>
                  /\ cb.req \notin DOMAIN inflightRequests'[b]
                  /\ callbacks'[<<b, cb.req>>]
                        = Append(callbacks[<<b, cb.req>>], <<"Error", ErrCancelled>>)
    ELSE /\ activePromises'[b] = activePromises[b]
         /\ paused'[b] = paused[b]
         /\ inflightRequests'[b] = inflightRequests[b]
         /\ callbacks' = callbacks
         /\ replies' = replies

\* C28: an actor that handles CancelCommand{origin, id} and holds a promise
\* for (origin, id) calls its cancel callback once and deletes the entry, and
\* sends no reply to the origin; without such a promise nothing changes and
\* nothing is called.
C28_CancelCommand ==
    [][\A b \in Actors : \A m \in HandledMsgs(b) :
         (Handles(b, m) /\ m.type = "cancelCommand" /\ pc'[b] # "done")
            => /\ CancelCommandEffect(b, <<m.src, m.id>>)
               /\ replies'[<<m.src, m.id>>] = replies[<<m.src, m.id>>]
      ]_vars

\* The same, where only the cancel of a paused command sends no reply: the
\* cancel callback of a proxy promise fails b's own request, whose error
\* processor sends the origin one ErrCancelled reply.
C28_CancelCommandPaused ==
    [][\A b \in Actors : \A m \in HandledMsgs(b) :
         (Handles(b, m) /\ m.type = "cancelCommand" /\ pc'[b] # "done")
            => LET pid == <<m.src, m.id>>
               IN /\ CancelCommandEffect(b, pid)
                  /\ replies'[pid] =
                        IF /\ pid \in DOMAIN activePromises[b]
                           /\ activePromises[b][pid].kind = "proxy"
                        THEN Append(replies[pid], <<TRUE, ErrCancelled>>)
                        ELSE replies[pid]
      ]_vars

\* B has handled A's cancelCommand for a command it had paused: the promise
\* is gone and A was sent nothing.
C28_PausedCancelled ==
    /\ cancelsSent[<<"A", 0>>] > 0
    /\ <<"A", 0>> \in received
    /\ \A i \in 1..Len(queue["B"]) : queue["B"][i].type # "cancelCommand"
    /\ messages["B"] = <<>>
    /\ activePromises["B"] = EmptyMap
    /\ replies[<<"A", 0>>] = <<>>
    /\ state["B"] = actorRunning

\* Actor a owes a reply for pid: it has deferred the command, by pausing it
\* (the command waits in the user's queue, which a cancelCommand empties of
\* it) or by delegating it by proxy (its own request is still outstanding),
\* and no reply for pid has been sent.
OwesReply(a, pid) ==
    /\ pid \in received
    /\ replies[pid] = <<>>
    /\ \/ \E i \in 1..Len(paused[a]) : paused[a][i] = pid
       \/ \E f \in proxied :
             f[1] = a /\ <<f[2], f[3]>> = pid /\ f[4] \in DOMAIN inflightRequests[a]

StopsIn(q, sid) == SelectSeq(q, LAMBDA m : m.type = "upstreamStopped" /\ m.id = sid)

\* The output oid of b is torn down in this step: it leaves the table, its
\* streamClosed runs once with err, and the consumer (unless it has ended) is
\* sent one upstreamStopped with err.
TornDown(b, oid, err) ==
    /\ oid \notin DOMAIN streamOutputs'[b]
    /\ streamLog'[oid[1]].streamClosed = Append(streamLog[oid[1]].streamClosed, err)
    /\ pc[oid[2]] # "done" =>
          StopsIn(queue'[oid[2]], oid[1])
             = Append(StopsIn(queue[oid[2]], oid[1]),
                      Msg("upstreamStopped", b, oid[1], err, FALSE))

\* The output oid of b stays registered in this step and nothing is said
\* about its end.
StaysOpen(b, oid) ==
    /\ oid \in DOMAIN streamOutputs'[b]
    /\ streamLog'[oid[1]].streamClosed = streamLog[oid[1]].streamClosed
    /\ StopsIn(queue'[oid[2]], oid[1]) = StopsIn(queue[oid[2]], oid[1])

C31_FillErrorClosesStream ==
    [][\A sid \in 1..MaxRequests :
         streamLog'[sid].fillErr # streamLog[sid].fillErr
            => /\ streamLog'[sid].fillErr = streamLog[sid].fillErr + 1
               /\ streamLog'[sid].repSent = streamLog[sid].repSent
               /\ streamLog'[sid].streamClosed = Append(streamLog[sid].streamClosed, UserErr)
               /\ \A a \in Actors : \A oid \in DOMAIN streamOutputs'[a] : oid[1] # sid
               /\ \A c \in Actors :
                     /\ RepliesIn(queue'[c], sid) = RepliesIn(queue[c], sid)
                     /\ (pc[c] # "done" /\ c = "A") =>
                           StopsIn(queue'[c], sid)
                              = Append(StopsIn(queue[c], sid),
                                       Msg("upstreamStopped", "B", sid, UserErr, FALSE))
                     /\ c # "A" => StopsIn(queue'[c], sid) = StopsIn(queue[c], sid)
      ]_vars

\* FillData has failed at InitStreamOutput for stream 1 and in a flush or on a
\* streamRequest for stream 2; A has been told of both and B holds no output.
C31_Witness ==
    /\ streamLog[1].fillErr = 1 /\ streamLog[1].fill = 1
    /\ streamLog[2].fillErr = 1 /\ streamLog[2].fill > 1
    /\ streamLog[1].closed = <<UserErr>>
    /\ streamLog[2].closed = <<UserErr>>
    /\ streamOutputs["B"] = EmptyMap

\* C32: InitStreamOutput for a command that carries no valid stream request
\* reports ErrBadStream to the output's streamClosed, registers no output and
\* enqueues nothing: the only message of the step is the handler's reply to
\* the origin of the command.
C32_BadStream ==
    [][\A b \in Actors : \A m \in HandledMsgs(b) :
         (Handles(b, m) /\ m.type = "command" /\ pc'[b] # "done")
            => IF m.stream[1] = 0
               THEN /\ badStream'[b] = badStream[b] + 1
                    /\ streamOutputs'[b] = streamOutputs[b]
                    /\ streamLog' = streamLog
                    /\ \A c \in Actors :
                          queue'[c] = IF c = m.src /\ pc[c] # "done"
                                      THEN Append(queue[c], Msg("reply", m.src, m.id, "v", FALSE))
                                      ELSE queue[c]
               ELSE badStream' = badStream
      ]_vars

\* B has set up an output for a plain request of A and was told ErrBadStream;
\* it holds no output.
C32_Witness ==
    /\ badStream["B"] = 1
    /\ streamOutputs["B"] = EmptyMap
    /\ <<"A", 0>> \in received
    /\ replies[<<"A", 0>>] = << <<FALSE, "v">> >>
    /\ \A sid \in 1..MaxRequests : streamLog[sid] = NoLog

\* The items that this step appends to the mailbox of c.
NewItems(c) == SubSeq(queue'[c], Len(queue[c]) + 1, Len(queue'[c]))

\* C33: InitStreamOutput for a valid stream request whose FillData does not
\* fail does exactly one of: (a) the request has no data slot: streamCanSend
\* to the consumer, output registered idle; (b) FillData gives data: one
\* streamReply, output registered; (c) no data, output not closing: nothing
\* enqueued, output registered armed; (d) no data, output closing:
\* upstreamStopped enqueued, output not registered.  (The handler's own
\* reply follows in each case.)
C33_InitStreamOutputCases ==
    [][\A b \in Actors : \A m \in HandledMsgs(b) :
         (/\ Handles(b, m) /\ m.type = "command" /\ m.stream[1] # 0
          /\ pc'[b] # "done" /\ pc[m.src] # "done"
          /\ streamLog'[m.stream[1]].fillErr = streamLog[m.stream[1]].fillErr)
            => LET sid == m.stream[1]
                   c == m.stream[2]
                   oid == <<sid, c>>
                   rep == Msg("reply", m.src, m.id, "v", FALSE)
                   in == oid \in DOMAIN streamOutputs'[b]
                   out == streamOutputs'[b][oid]
                   caseA == /\ NewItems(c) = <<Msg("streamCanSend", b, sid, NoErr, FALSE), rep>>
                            /\ in /\ ~out.armed /\ out.sent = 0 /\ ~out.closing
                   caseB == /\ NewItems(c) = <<Msg("streamReply", b, sid, ChunkOf(1), FALSE), rep>>
                            /\ in /\ ~out.armed /\ out.sent = 1 /\ ~out.closing
                   caseC == /\ NewItems(c) = <<rep>>
                            /\ in /\ out.armed /\ out.sent = 0 /\ ~out.closing
                   caseD == /\ NewItems(c) = <<Msg("upstreamStopped", b, sid, quitError[b], FALSE), rep>>
                            /\ ~in
                            /\ state[b] # actorRunning
                            /\ streamLog'[sid].streamClosed = <<quitError[b]>>
               IN /\ oid \notin DOMAIN streamOutputs[b]
                  /\ IF m.stream[3] = "nil" THEN caseA
                     ELSE /\ caseB \/ caseC \/ caseD
                          /\ streamLog'[sid].fill = 1
      ]_vars

\* Case (d) has happened: B, already Closed by the system, was asked for a
\* stream, had no data, and stopped the stream at once.
C33_Witness ==
    /\ streamLog[1].fill = 1 /\ streamLog[1].fillErr = 0 /\ streamLog[1].repSent = 0
    /\ streamLog[1].streamClosed = <<NoErr>>
    /\ streamLog[1].closed = <<NoErr>>
    /\ closeLog["B"].done /\ closeLog["B"].outputs = EmptyMap

\* The items of type t about stream sid that actor a put into q.
NotesIn(q, t, a, sid) == SelectSeq(q, LAMBDA m : m.type = t /\ m.src = a /\ m.id = sid)

\* The stream request of input sid of a was still in flight when a closed.
RequestPending(a, sid) ==
    \E id \in DOMAIN closeLog'[a].inflight :
        /\ closeLog'[a].inflight[id].kind = "stream"
        /\ closeLog'[a].inflight[id].stream = sid

\* In this step, the close() of a, every input that a held is closed once
\* with inputErr(sid) and its source, when known (and not ended), is sent one
\* downstreamStopped with that error; every output that a held has its
\* streamClosed run once and its consumer (unless it has ended) is sent one
\* upstreamStopped, both with the close error of the output: the quit error
\* unless CloseStream had been called before.  The tables are empty after.
StreamsNotified(a, inputErr(_)) ==
    LET L == closeLog'[a]
    IN /\ \A sid \in DOMAIN L.inputs :
            LET src == L.inputs[sid].source
            IN /\ streamLog'[sid].closed = Append(streamLog[sid].closed, inputErr(sid))
               /\ (src # NoActor /\ pc'[src] # "done")
                     => NotesIn(NewItems(src), "downstreamStopped", a, sid)
                           = <<Msg("downstreamStopped", a, sid, inputErr(sid), FALSE)>>
               /\ \A p \in Actors \ {a, src} :
                     NotesIn(NewItems(p), "downstreamStopped", a, sid) = <<>>
       /\ \A oid \in DOMAIN L.outputs :
            LET err == IF L.outputs[oid].closing THEN L.outputs[oid].closeError
                       ELSE L.quitError
            IN /\ streamLog'[oid[1]].streamClosed
                     = Append(streamLog[oid[1]].streamClosed, err)
               /\ pc'[oid[2]] # "done"
                     => NotesIn(NewItems(oid[2]), "upstreamStopped", a, oid[1])
                           = <<Msg("upstreamStopped", a, oid[1], err, FALSE)>>
       /\ streamInputs'[a] = EmptyMap
       /\ streamOutputs'[a] = EmptyMap
       /\ readyOutputs'[a] = {}

CommandIdsIn(q, a) ==
    LET cs == SelectSeq(q, LAMBDA m : m.type = "command" /\ m.src = a)
    IN [i \in 1..Len(cs) |-> cs[i].id]

\* C35: the command ids of an actor are fresh: every id in the inflight
\* table is below nextCommandId, nextCommandId never decreases, and an id
\* that a step adds to the table, or gives to a command that the actor sends
\* while it handles a message, is the nextCommandId of before the step and
\* below the one after; so that no id is placed in the table twice.
C35_CommandIdsFresh ==
    /\ [](\A a \in Actors : \A id \in DOMAIN inflightRequests[a] : id < nextCommandId[a])
    /\ [][\A a \in Actors :
            /\ nextCommandId'[a] >= nextCommandId[a]
            /\ \A id \in DOMAIN inflightRequests'[a] \ DOMAIN inflightRequests[a] :
                  /\ nextCommandId[a] <= id
                  /\ id < nextCommandId'[a]
            /\ \A m \in HandledMsgs(a) :
                 Handles(a, m)
                    => \A b \in Actors \ {a} :
                         (pc'[b] # "done" /\ Len(queue'[b]) >= Len(queue[b]))
                            => LET ids == CommandIdsIn(NewItems(b), a)
                               IN \A i \in 1..Len(ids) :
                                     /\ ids[i] >= nextCommandId[a]
                                     /\ ids[i] < nextCommandId'[a]
                                     /\ \A j \in 1..Len(ids) : ids[i] = ids[j] => i = j
         ]_vars

\* A has issued all its requests; one was answered and one was cancelled,
\* and both are gone from the table.
C35_Witness ==
    /\ nextCommandId["A"] = MaxRequests
    /\ \E p \in PIDs : p[1] = "A" /\ p \in cancelled /\ ~Outstanding(p)
    /\ \E p \in PIDs : p[1] = "A" /\ ReplyProcessed(p) /\ ~Outstanding(p)

\* Actor b answers the promise pid with err through the call op, as C36
\* states it: when pid is in the table, the origin is sent one error reply
\* with err and the entry is removed; when it is not, nothing is sent and
\* nothing changes.
AnswersPromise(b, op, err) ==
    \A m \in HandledMsgs(b) :
        (/\ Handles(b, m) /\ m.type = "user" /\ m.data = op
         /\ processors[b] /\ pc'[b] # "done")
           => LET pid == <<m.src, m.id>>
              IN IF pid \in DOMAIN activePromises[b]
                 THEN /\ replies'[pid] = Append(replies[pid], <<TRUE, err>>)
                      /\ pc[pid[1]] # "done"
                            => NewItems(pid[1]) = <<Msg("reply", pid[1], pid[2], err, TRUE)>>
                      /\ activePromises'[b] = MapDel(activePromises[b], pid)
                 ELSE /\ replies' = replies
                      /\ activePromises'[b] = activePromises[b]
                      /\ \A c \in Actors \ {b} : queue'[c] = queue[c]

\* C36: promiseReplyWithError(id, err) on an id in the active-promise table
\* sends the origin one error reply, so that the origin's ReplyProcessor gets
\* Error(err) and never Process, and removes the entry; on an id not in the
\* table it sends nothing and changes nothing.
C36_PromiseReplyWithError ==
    /\ [][\A b \in Actors : AnswersPromise(b, "PromiseReplyWithError", UserErr)]_vars
    /\ [](\A p \in PIDs : \A i \in 1..Len(callbacks[p]) :
             callbacks[p][i] # <<"Process", UserErr>>)

\* The same statement about replyWithErrorFromPromise.
C36_ReplyWithErrorFromPromise ==
    /\ [][\A b \in Actors : AnswersPromise(b, "ReplyWithErrorFromPromise", UserErr)]_vars
    /\ [](\A p \in PIDs :
             (/\ replies[p] = << <<TRUE, UserErr>> >> /\ callbacks[p] # <<>>)
                => callbacks[p] = << <<"Error", UserErr>> >>)

\* The entry of stream i at the absolute offset k.
EntryAt(i, k) == i.buffer[k - i.startOffset + 1]

\* C37: for a reader that subscribed with GetLatestState at offset start and
\* reads on from each nextOffset, as long as NoMoreSubscribers is not called
\* and LastOffsetChanged is called with offsets up to the reader's: what it
\* has read is the first entries Added since it subscribed, in Add order and
\* once each; the rest is in the buffer at the offsets that follow; no read
\* fails, and a read reports no data only when all was read.  A compaction
\* by LastOffsetChanged changes neither the entry at any offset that is kept
\* nor the end offset.
C37_ReaderSeesAdds ==
    /\ [](reader.subscribed /\ ~reader.reset
            => /\ reader.last \notin {"err", "panic"}
               /\ reader.offset - reader.start \in 0..Len(reader.added)
               /\ reader.got = SubSeq(reader.added, 1, reader.offset - reader.start)
               /\ EndOffset(infoStream) = reader.start + Len(reader.added)
               /\ infoStream.startOffset <= reader.offset
               /\ \A k \in reader.offset..(EndOffset(infoStream) - 1) :
                     EntryAt(infoStream, k) = reader.added[k - reader.start + 1]
               /\ reader.last = "nil" => reader.got = reader.added)
    /\ [][(reader'.op = "LastOffsetChanged" /\ infoStream' # infoStream)
            => /\ EndOffset(infoStream') = EndOffset(infoStream)
               /\ infoStream'.startOffset > infoStream.startOffset
               /\ \A k \in infoStream'.startOffset..(EndOffset(infoStream) - 1) :
                     EntryAt(infoStream', k) = EntryAt(infoStream, k)
         ]_vars

\* The reader subscribed to a stream that held entries already, read all of
\* what was Added since, in pieces, and was then told that there is no more
\* data; the buffer was compacted past the offset at which it subscribed.
C37_Witness ==
    /\ reader.subscribed /\ ~reader.reset
    /\ reader.start > 0
    /\ Len(reader.added) >= 2
    /\ reader.got = reader.added
    /\ reader.last = "nil"
    /\ infoStream.startOffset > reader.start

\* C38: FillData at an offset below startOffset gives ErrOffsetOutOfRange and
\* the offset it was given; at any other offset, beyond the end of the buffer
\* too, and for every kind of slot, it gives data, no data or
\* ErrOffsetOutOfRange, and does not fail with a negative length or an index
\* outside the buffer.  Stated of the calls of the reader, which reads on
\* from its offset whatever has happened to the stream.
C38_FillDataInRange ==
    [][reader'.op = "FillData"
         => IF reader.offset < infoStream.startOffset
            THEN reader'.last = "err" /\ reader'.offset = reader.offset
            ELSE reader'.last \in {"data", "nil", "err"}
      ]_vars

\* What holds of FillData at every offset: C38 but for the array slot (and a
\* slot of another kind) at an offset beyond the end of the buffer.
C38_FillDataWithinBuffer ==
    \A slot \in Slots : \A offset \in Offsets : \A maxLen \in 0..MaxLenArg :
        LET r == InfoFillData(infoStream, slot, offset, maxLen)
        IN IF offset < infoStream.startOffset
           THEN r.kind = "err" /\ r.err = ErrOffsetOutOfRange /\ r.next = offset
           ELSE (slot = "info" \/ offset <= EndOffset(infoStream))
                   => /\ r.kind \in {"data", "nil", "err"}
                      /\ r.kind = "err" => r.err = ErrOffsetOutOfRange
                      /\ r.fault = "none"

\* C39: the promise or reply returned for a batch is resolved at most once,
\* not before every command that was sent has given its reply or error, and
\* it is resolved once they all have, whatever the number of commands and
\* the order of the replies.
C39_BatchResolvedOnce ==
    batch.kind # "none"
       => /\ Len(batch.resolved) <= 1
          /\ batch.resolved # <<>> => batch.inflight = {}
          /\ (batch.inflight = {} /\ ~batch.panicked) => Len(batch.resolved) = 1

\* C39 but for the empty batch of processCommandBatch.
C39_NonEmptyBatchResolvedOnce ==
    (batch.kind = "rpc" \/ (batch.kind = "plain" /\ batch.commands # <<>>))
       => /\ Len(batch.resolved) <= 1
          /\ batch.resolved # <<>> => batch.inflight = {}
          /\ (batch.inflight = {} /\ ~batch.panicked) => Len(batch.resolved) = 1

\* C40: once the promise of a batch was cancelled, the cancellers that were
\* walked are those that SendRequest returned, one per command sent and none
\* of them nil, no call has failed, and the request of each command sent was
\* cancelled once.
C40_CancelCancelsEach ==
    batch.cancelled
       => /\ batch.cancellers = Dispatched(batch.commands)
          /\ ~batch.panicked
          /\ \A i \in 1..Len(batch.commands) :
                batch.cancels[i] = IF batch.commands[i] = "ok" THEN 1 ELSE 0

====
